---- MODULE Spec2Model ----
(***************************************************************************)
(* Model of zjbc2000/image_process_tools:                                  *)
(*   src/图片拆分_final.py      the crop pipeline (ImageSplitter)           *)
(*   src/图片压缩工具_final.py   the compress / merge pipeline               *)
(* Each pipeline is a sequential program; an action is one step of it and  *)
(* the pc variables hold the position of the program.                      *)
(***************************************************************************)
EXTENDS Integers, Sequences, FiniteSets, TLC

VARIABLES
    \* ---- protocol negotiator (auto_fix_secure_by_probe / http_health_probe)
    negPc,                  \* "idle" | "start" | "flip" | "done" | "raised"
    preflight_minio_health, \* closure variable of main
    forbid_redirect,        \* closure variable of main of either tool
    secure_guess,           \* argument of auto_fix_secure_by_probe
    probeResp,              \* the response the last health probe received
    probes,                 \* the probes issued so far: <<[use_ssl, ok], ...>>
    negResult,              \* the value auto_fix_secure_by_probe returned
    negCalls,               \* how many times auto_fix_secure_by_probe was called
    \* ---- crop pipeline: main of 图片拆分_final.py and ImageSplitter
    pc,                     \* position of main / ImageSplitter
    minio_secure,           \* main's minio_secure after the inference from the URL
    self_minio_secure,      \* ImageSplitter.minio_secure
    minio_client,           \* ImageSplitter.minio_client: [created, secure]
    enable_compression,     \* ImageSplitter.enable_compression
    compression_quality,    \* ImageSplitter.compression_quality
    compression_mode,       \* ImageSplitter.compression_mode
    bucketChecks,           \* calls of bucket_exists
    bucketMakes,            \* calls of make_bucket
    bucketAbsent,           \* calls of bucket_exists that reported the bucket absent
    crop_coordinates,       \* main's crop_coordinates
    downloaded_file,        \* process_image's local: "none" or the file's name
    disk,                   \* the local files that exist
    img,                    \* the downloaded image: [w, h, mode]
    coordinates_list,       \* process_image's local
    i,                      \* the loop index of process_image (1-based)
    cropped,                \* the region crop_image returned: [box, size, mode]
    cropCalls,              \* the boxes handed to the codec's crop
    attempted,              \* the regions (indices) crop_image was called for
    jpegInputs,             \* the colour modes handed to the JPEG encoder
    encodeQualities,        \* the quality values handed to the JPEG encoder
    store,                  \* the objects put into the bucket: {[key, scheme]}
    results,                \* process_image's local list of per-region results
    result,                 \* what process_image returned
    \* ---- compress / merge pipeline: main of 图片压缩工具_final.py
    cpc,                    \* position of main
    process_mode,           \* main's process_mode once resolved
    quality,                \* main's quality
    output_format,          \* main's output_format ("none" for None)
    output_path,            \* main's output_path (NoPath for None)
    files,                  \* the local files: path -> size
    dl,                     \* the modes of the images the running function downloaded
    ci,                     \* the frame of the running call of compress_image
    cresult,                \* the result dict of the processing function
    encodes,                \* the calls of the encoder for the file in hand (Encode)
    batch,                  \* batch_compress: [n, k, success, failed]
    ret,                    \* main's outcome: [kind, upload, return_url, final_url]
    \* ---- upload_to_minio_storage of 图片压缩工具_final.py, called repeatedly
    clock,                  \* datetime.now(), in microseconds
    uploads                 \* the object names of the uploads of this process, in order

negVars == <<negPc, preflight_minio_health, forbid_redirect, secure_guess, probeResp, probes,
             negResult, negCalls>>

cfgVars == <<enable_compression, compression_quality, compression_mode>>

connVars == <<minio_secure, self_minio_secure, minio_client, bucketChecks, bucketMakes,
              bucketAbsent>>

runVars == <<crop_coordinates, downloaded_file, disk, img, coordinates_list, i, cropped, cropCalls,
             attempted, jpegInputs, encodeQualities, store, results, result>>

splitVars == <<pc, cfgVars, connVars, runVars>>

compVars == <<cpc, process_mode, quality, output_format, output_path, files, dl, ci,
              cresult, encodes, batch, ret>>

upVars == <<clock, uploads>>

vars == <<negVars, splitVars, compVars, upVars>>

(***************************************************************************)
(* Protocol negotiator                                                     *)
(***************************************************************************)

\* What a GET to the health path can produce: an HTTP status, or an exception
\* of the HTTP client (SSL error, timeout, any other exception).
StatusCodes == {200, 204, 401, 403, 301, 404, 503}

NoResp == [kind |-> "none", code |-> 0]

Responses ==
    {[kind |-> "status", code |-> c] : c \in StatusCodes}
        \cup {[kind |-> k, code |-> 0] : k \in {"ssl_error", "timeout", "other_error"}}

\* A 3xx is taken for a confirmation of the protocol.
http_health_probe_redirect_ok(r) ==
    IF r.kind = "status"
    THEN [raised |-> FALSE, value |-> r.code \in {200, 204, 401, 403, 301}]
    ELSE [raised |-> FALSE, value |-> FALSE]

\* http_health_probe: the value returned for response r, and whether an
\* exception escapes the function.
http_health_probe(r) ==
    IF r.kind = "status"
    THEN [raised |-> FALSE, value |-> r.code \in {200, 204, 401, 403}]
    ELSE IF r.kind = "ssl_error"
         THEN [raised |-> FALSE, value |-> FALSE]    \* except SSLError
         ELSE [raised |-> FALSE, value |-> FALSE]    \* except Exception

\* if not preflight_minio_health: return secure_guess
AutoFixSkip ==
    /\ negPc = "start"
    /\ UNCHANGED <<splitVars, compVars>>
    /\ ~preflight_minio_health
    /\ negPc' = "done"
    /\ negResult' = secure_guess
    /\ UNCHANGED <<preflight_minio_health, forbid_redirect, secure_guess, probeResp, probes,
                   negCalls>>
    /\ UNCHANGED upVars

\* The opposite protocol is probed whatever the first probe returned.
after_guess_always_flip(ok) == "flip"

\* if ok: return secure_guess; otherwise go on to the probe of the opposite
after_guess(ok) == IF ok THEN "done" ELSE "flip"

\* ok = http_health_probe(endpoint, secure_guess); if ok: return secure_guess
ProbeGuess ==
    /\ negPc = "start"
    /\ UNCHANGED <<splitVars, compVars>>
    /\ preflight_minio_health
    /\ \E r \in Responses :
         LET p == http_health_probe(r) IN
         /\ probeResp' = r
         /\ IF p.raised
            THEN /\ negPc' = "raised"
                 /\ UNCHANGED <<probes, negResult>>
            ELSE /\ probes' = Append(probes, [use_ssl |-> secure_guess, ok |-> p.value])
                 /\ negPc' = after_guess(p.value)
                 /\ negResult' = IF p.value THEN secure_guess ELSE negResult
    /\ UNCHANGED <<preflight_minio_health, forbid_redirect, secure_guess, negCalls>>
    /\ UNCHANGED upVars

\* flipped = not secure_guess; ok2 = http_health_probe(endpoint, flipped)
\* if ok2: return flipped;  return secure_guess
ProbeFlipped ==
    /\ negPc = "flip"
    /\ UNCHANGED <<splitVars, compVars>>
    /\ \E r \in Responses :
         LET p == http_health_probe(r)
             flipped == ~secure_guess IN
         /\ probeResp' = r
         /\ IF p.raised
            THEN /\ negPc' = "raised"
                 /\ UNCHANGED <<probes, negResult>>
            ELSE /\ probes' = Append(probes, [use_ssl |-> flipped, ok |-> p.value])
                 /\ negPc' = "done"
                 /\ negResult' = IF p.value THEN flipped ELSE secure_guess
    /\ UNCHANGED <<preflight_minio_health, forbid_redirect, secure_guess, negCalls>>
    /\ UNCHANGED upVars

(***************************************************************************)
(* Python values handed to normalize_coordinates.  A value is a record     *)
(* [t, n, items]: t is the Python type, n the number of an int, bool or    *)
(* float (a float is kept in tenths), items the elements of a tuple or     *)
(* list, or the <<key, value>> pairs of a dict.  A str is the sequence of  *)
(* its tokens (Tok): brackets, commas and scalar words.                    *)
(***************************************************************************)
PInt(n) == [t |-> "int", n |-> n, items |-> <<>>]

PBool(b) == [t |-> "bool", n |-> IF b THEN 1 ELSE 0, items |-> <<>>]

PFloat(tenths) == [t |-> "float", n |-> tenths, items |-> <<>>]

PNone == [t |-> "none", n |-> 0, items |-> <<>>]

PTuple(items) == [t |-> "tuple", n |-> 0, items |-> items]

PList(items) == [t |-> "list", n |-> 0, items |-> items]

PDict(pairs) == [t |-> "dict", n |-> 0, items |-> pairs]

\* A token of the text of a str.  kind is one of "[", "]", "(", ")", "," or
\* the kind of a scalar word: "intlit" (100), "floatlit" (2.5, n in tenths),
\* "zerolit" (digits with a leading zero, 02: a number for float() but
\* neither JSON nor a Python literal), "true" (JSON), "True" (Python),
\* "word" (anything else without a comma or a bracket).
Tok(kind, n) == [t |-> kind, n |-> n, items |-> <<>>]

PStr(tokens) == [t |-> "str", n |-> 0, items |-> tokens]

\* key in d
HasKey(d, key) == \E k \in 1..Len(d.items) : d.items[k][1] = key

\* d[key]
Get(d, key) == d.items[CHOOSE k \in 1..Len(d.items) : d.items[k][1] = key][2]

\* int(v) of a float kept in tenths: truncation towards zero
Trunc(tenths) == IF tenths >= 0 THEN tenths \div 10 ELSE -((-tenths) \div 10)

NormError == [ok |-> FALSE, boxes |-> <<>>]

\* float(s) of the text s: [ok, n], n in tenths; ValueError unless the text
\* is one number
float_of_str(v) ==
    IF Len(v.items) = 1 /\ v.items[1].t \in {"intlit", "zerolit"}
    THEN [ok |-> TRUE, n |-> 10 * v.items[1].n]
    ELSE IF Len(v.items) = 1 /\ v.items[1].t = "floatlit"
    THEN [ok |-> TRUE, n |-> v.items[1].n]
    ELSE [ok |-> FALSE, n |-> 0]

\* A bool is converted like the int it is.
to_int_bool_as_int(v) ==
    IF v.t \in {"int", "bool"} THEN [ok |-> TRUE, n |-> v.n]
    ELSE IF v.t = "float" THEN [ok |-> TRUE, n |-> Trunc(v.n)]
    ELSE IF v.t = "str"
    THEN [ok |-> float_of_str(v).ok, n |-> Trunc(float_of_str(v).n)]
    ELSE [ok |-> FALSE, n |-> 0]

\* to_int: [ok, n]; ok is FALSE when the code raises ValueError
to_int(v) ==
    IF v.t = "bool" THEN [ok |-> FALSE, n |-> 0]
    ELSE IF v.t = "int" THEN [ok |-> TRUE, n |-> v.n]
    ELSE IF v.t = "float" THEN [ok |-> TRUE, n |-> Trunc(v.n)]
    ELSE IF v.t = "str"
    THEN [ok |-> float_of_str(v).ok, n |-> Trunc(float_of_str(v).n)]
    ELSE [ok |-> FALSE, n |-> 0]

\* one_box: the four values mapped through to_int; raises when one of them does
one_box(x1, y1, x2, y2) ==
    LET a == to_int(x1)
        b == to_int(y1)
        c == to_int(x2)
        d == to_int(y2) IN
    IF a.ok /\ b.ok /\ c.ok /\ d.ok
    THEN [ok |-> TRUE, boxes |-> << <<a.n, b.n, c.n, d.n>> >>]
    ELSE NormError

IsContainer(v) == v.t \in {"list", "dict", "tuple"}

\* s.split(","): the pieces of a token sequence between its commas
RECURSIVE Split(_)
Split(toks) ==
    IF toks = <<>> THEN << <<>> >>
    ELSE LET rest == Split(Tail(toks)) IN
         IF Head(toks).t = ","
         THEN << <<>> >> \o rest
         ELSE << <<Head(toks)>> \o rest[1] >> \o Tail(rest)

NoParse == [ok |-> FALSE, value |-> PNone]

Parsed(v) == [ok |-> TRUE, value |-> v]

\* The value of a scalar word in JSON, and in a Python literal
JsonScalar(tok) ==
    IF tok.t = "intlit" THEN Parsed(PInt(tok.n))
    ELSE IF tok.t = "floatlit" THEN Parsed(PFloat(tok.n))
    ELSE IF tok.t = "true" THEN Parsed(PBool(TRUE))
    ELSE NoParse

PyScalar(tok) ==
    IF tok.t = "intlit" THEN Parsed(PInt(tok.n))
    ELSE IF tok.t = "floatlit" THEN Parsed(PFloat(tok.n))
    ELSE IF tok.t = "True" THEN Parsed(PBool(TRUE))
    ELSE NoParse

\* The text between two brackets, or a whole text
Inner(toks) == SubSeq(toks, 2, Len(toks) - 1)

Bracketed(toks, open, close) ==
    Len(toks) >= 2 /\ toks[1].t = open /\ toks[Len(toks)].t = close

\* json.loads of a text of one bracket level: a number, true, or an array of
\* those; everything else raises
json_loads(c) ==
    LET toks == c.items IN
    IF Len(toks) = 1 THEN JsonScalar(toks[1])
    ELSE IF Bracketed(toks, "[", "]") THEN
        IF Inner(toks) = <<>> THEN Parsed(PList(<<>>))
        ELSE LET segs == Split(Inner(toks)) IN
             IF \A k \in 1..Len(segs) : Len(segs[k]) = 1 /\ JsonScalar(segs[k][1]).ok
             THEN Parsed(PList([k \in 1..Len(segs) |-> JsonScalar(segs[k][1]).value]))
             ELSE NoParse
    ELSE NoParse

\* The elements of a Python display or of a bare tuple: scalars separated by
\* commas, a trailing comma allowed; comma says whether there was a comma
PyElements(toks) ==
    LET all == Split(toks)
        segs == IF Len(all) >= 2 /\ all[Len(all)] = <<>>
                THEN SubSeq(all, 1, Len(all) - 1) ELSE all IN
    IF \A k \in 1..Len(segs) : Len(segs[k]) = 1 /\ PyScalar(segs[k][1]).ok
    THEN [ok |-> TRUE, comma |-> Len(all) >= 2,
          values |-> [k \in 1..Len(segs) |-> PyScalar(segs[k][1]).value]]
    ELSE [ok |-> FALSE, comma |-> FALSE, values |-> <<>>]

\* ast.literal_eval of a text of one bracket level: a number, True, a list
\* display, a parenthesized tuple or scalar, or a bare tuple "a, b, c"
literal_eval(c) ==
    LET toks == c.items IN
    IF Len(toks) = 1 THEN PyScalar(toks[1])
    ELSE IF Bracketed(toks, "[", "]") THEN
        IF Inner(toks) = <<>> THEN Parsed(PList(<<>>))
        ELSE IF PyElements(Inner(toks)).ok
        THEN Parsed(PList(PyElements(Inner(toks)).values))
        ELSE NoParse
    ELSE IF Bracketed(toks, "(", ")") THEN
        IF Inner(toks) = <<>> THEN Parsed(PTuple(<<>>))
        ELSE IF ~PyElements(Inner(toks)).ok THEN NoParse
        ELSE IF PyElements(Inner(toks)).comma
        THEN Parsed(PTuple(PyElements(Inner(toks)).values))
        ELSE Parsed(PyElements(Inner(toks)).values[1])
    ELSE IF PyElements(toks).ok /\ PyElements(toks).comma
    THEN Parsed(PTuple(PyElements(toks).values))
    ELSE NoParse

\* parts = [p.strip() for p in s.split(",") if p.strip()]
comma_parts(c) ==
    LET segs == Split(c.items)
        F[k \in 0..Len(segs)] ==
            IF k = 0 THEN <<>>
            ELSE IF segs[k] = <<>> THEN F[k - 1]
            ELSE Append(F[k - 1], PStr(segs[k])) IN
    F[Len(segs)]

\* Only the JSON parse is tried.
parse_string_json_only(c) ==
    IF json_loads(c).ok
    THEN [how |-> "json", value |-> json_loads(c).value, parts |-> <<>>]
    ELSE [how |-> "none", value |-> PNone, parts |-> <<>>]

\* The strategies for a string, in order: json.loads, ast.literal_eval, the
\* split at commas when the text has a comma and exactly four parts; how
\* names the one that took the string ("none": ValueError is raised)
parse_string(c) ==
    IF json_loads(c).ok
    THEN [how |-> "json", value |-> json_loads(c).value, parts |-> <<>>]
    ELSE IF literal_eval(c).ok
    THEN [how |-> "literal", value |-> literal_eval(c).value, parts |-> <<>>]
    ELSE IF (\E k \in 1..Len(c.items) : c.items[k].t = ",")
            /\ Len(comma_parts(c)) = 4
    THEN [how |-> "split", value |-> PNone, parts |-> comma_parts(c)]
    ELSE [how |-> "none", value |-> PNone, parts |-> <<>>]

\* keys1, keys2 and keys3 of the dict branch
keys1 == <<"x1", "y1", "x2", "y2">>

\* left/top and right/bottom are read in the wrong order.
keys2_swapped == <<"top", "left", "bottom", "right">>

keys2 == <<"left", "top", "right", "bottom">>

keys3 == <<"x", "y", "w", "h">>

RECURSIVE normalize_coordinates(_)
RECURSIVE normalize_items(_)
RECURSIVE normalize_value(_)

\* An item that cannot be normalized is left out of the list.
RECURSIVE normalize_items_skip_malformed(_)
normalize_items_skip_malformed(items) ==
    IF items = <<>>
    THEN [ok |-> TRUE, boxes |-> <<>>]
    ELSE LET h == normalize_coordinates(Head(items))
             rest == normalize_items_skip_malformed(Tail(items)) IN
         [ok |-> TRUE, boxes |-> (IF h.ok THEN h.boxes ELSE <<>>) \o rest.boxes]

\* boxes = []; for item in coordinates: boxes.extend(normalize_coordinates(item))
normalize_items(items) ==
    IF items = <<>>
    THEN [ok |-> TRUE, boxes |-> <<>>]
    ELSE LET h == normalize_coordinates(Head(items)) IN
         IF ~h.ok THEN NormError
         ELSE LET rest == normalize_items(Tail(items)) IN
              IF rest.ok THEN [ok |-> TRUE, boxes |-> h.boxes \o rest.boxes]
              ELSE NormError

\* normalize_coordinates after the string branch, for the value given or
\* parsed: [ok, boxes]; ok is FALSE when the code raises.
normalize_value(c) ==
    IF c.t = "dict" THEN
        IF HasKey(c, "boxes") /\ Get(c, "boxes").t = "list"
        THEN normalize_coordinates(Get(c, "boxes"))
        ELSE IF \A k \in 1..4 : HasKey(c, keys1[k])
        THEN one_box(Get(c, keys1[1]), Get(c, keys1[2]), Get(c, keys1[3]),
                     Get(c, keys1[4]))
        ELSE IF \A k \in 1..4 : HasKey(c, keys2[k])
        THEN one_box(Get(c, keys2[1]), Get(c, keys2[2]), Get(c, keys2[3]),
                     Get(c, keys2[4]))
        ELSE IF \A k \in 1..4 : HasKey(c, keys3[k])
        THEN LET x == to_int(Get(c, keys3[1]))
                 y == to_int(Get(c, keys3[2]))
                 w == to_int(Get(c, keys3[3]))
                 h == to_int(Get(c, keys3[4])) IN
             IF x.ok /\ y.ok /\ w.ok /\ h.ok
             THEN one_box(Get(c, "x"), Get(c, "y"), PInt(x.n + w.n), PInt(y.n + h.n))
             ELSE NormError
        ELSE NormError
    ELSE IF c.t = "tuple" THEN
        IF Len(c.items) = 4
        THEN one_box(c.items[1], c.items[2], c.items[3], c.items[4])
        ELSE NormError
    ELSE IF c.t = "list" THEN
        IF Len(c.items) = 0 THEN NormError
        ELSE IF Len(c.items) = 4 /\ \A k \in 1..4 : ~IsContainer(c.items[k])
        THEN one_box(c.items[1], c.items[2], c.items[3], c.items[4])
        ELSE IF /\ Len(c.items) = 2
                /\ \A k \in 1..2 : c.items[k].t \in {"list", "tuple"}
                                     /\ Len(c.items[k].items) = 2
        THEN one_box(c.items[1].items[1], c.items[1].items[2],
                     c.items[2].items[1], c.items[2].items[2])
        ELSE normalize_items(c.items)
    ELSE NormError

\* normalize_coordinates: [ok, boxes]; ok is FALSE when the code raises.  A
\* string is parsed first; the value it parsed to then takes the branches of
\* a value that was given as such.
normalize_coordinates(c) ==
    IF c.t = "str" THEN
        LET p == parse_string(c) IN
        IF p.how = "none" THEN NormError
        ELSE IF p.how = "split"
        THEN one_box(p.parts[1], p.parts[2], p.parts[3], p.parts[4])
        ELSE normalize_value(p.value)
    ELSE normalize_value(c)

(***************************************************************************)
(* ImageSplitter.crop_image                                                *)
(***************************************************************************)
Min(a, b) == IF a < b THEN a ELSE b

Max(a, b) == IF a > b THEN a ELSE b

\* The rectangle is checked after the image was opened and the box clamped.
crop_image_check_after_clamp(coordinates, w, h) ==
    LET x1 == coordinates[1]
        y1 == coordinates[2]
        x2 == Min(coordinates[3], w)
        y2 == Min(coordinates[4], h) IN
    IF x1 >= x2 \/ y1 >= y2
    THEN [raised |-> TRUE, opened |-> TRUE, box |-> <<x1, y1, x2, y2>>]
    ELSE [raised |-> FALSE, opened |-> TRUE, box |-> <<x1, y1, x2, y2>>]

\* The rectangle is checked with > where the code has >=.
crop_image_strict(coordinates, w, h) ==
    LET x1 == coordinates[1]
        y1 == coordinates[2]
        x2 == coordinates[3]
        y2 == coordinates[4] IN
    IF x1 > x2 \/ y1 > y2
    THEN [raised |-> TRUE, opened |-> FALSE, box |-> coordinates]
    ELSE [raised |-> FALSE, opened |-> TRUE,
          box |-> <<x1, y1, Min(x2, w), Min(y2, h)>>]

\* The box is clamped only when x2 and y2 are both outside the image.
crop_image_clamp_both(coordinates, w, h) ==
    LET x1 == coordinates[1]
        y1 == coordinates[2]
        x2 == coordinates[3]
        y2 == coordinates[4] IN
    IF x1 >= x2 \/ y1 >= y2
    THEN [raised |-> TRUE, opened |-> FALSE, box |-> coordinates]
    ELSE IF x2 > w /\ y2 > h
         THEN [raised |-> FALSE, opened |-> TRUE,
               box |-> <<x1, y1, Min(x2, w), Min(y2, h)>>]
         ELSE [raised |-> FALSE, opened |-> TRUE, box |-> <<x1, y1, x2, y2>>]

\* crop_image on an image of w x h: raised is TRUE when the ValueError of the
\* rectangle check is raised, opened says whether the image was opened, box is
\* the box handed to the codec's crop.
crop_image(coordinates, w, h) ==
    LET x1 == coordinates[1]
        y1 == coordinates[2]
        x2 == coordinates[3]
        y2 == coordinates[4] IN
    IF x1 >= x2 \/ y1 >= y2
    THEN [raised |-> TRUE, opened |-> FALSE, box |-> coordinates]
    ELSE IF x2 > w \/ y2 > h
         THEN [raised |-> FALSE, opened |-> TRUE,
               box |-> <<x1, y1, Min(x2, w), Min(y2, h)>>]
         ELSE [raised |-> FALSE, opened |-> TRUE, box |-> <<x1, y1, x2, y2>>]

(***************************************************************************)
(* Images and the JPEG encoder                                             *)
(***************************************************************************)
\* truecolor, truecolor+alpha, grayscale, grayscale+alpha, palette
ImageModes == {"RGB", "RGBA", "L", "LA", "P"}

\* The modes the codec writes as JPEG; any other mode makes save() raise.
JpegWritable == {"RGB", "L", "CMYK"}

NoImage == [w |-> 0, h |-> 0, mode |-> "none", valid |-> FALSE, status |-> 0]

NoCrop == [box |-> <<>>, mode |-> "none"]

NoResult == [returned |-> FALSE, success |-> FALSE, error |-> "none",
             total_crops |-> 0, results |-> <<>>, minio_secure |-> FALSE]

\* Image.new("RGB", size, white); paste(image, mask=alpha band)
FlattenOnWhite(mode) == "RGB"

\* image.convert(target)
Convert(mode, target) == target

\* The palette branch is missing: a palette image is handed on as it is.
to_jpeg_mode_no_palette(mode) ==
    IF mode \in {"RGBA", "LA"} THEN FlattenOnWhite(mode)
    ELSE IF mode = "P" THEN mode
    ELSE IF mode # "RGB" THEN Convert(mode, "RGB") ELSE mode

\* The colour-mode handling of ImageSplitter.compress_image and of the
\* compression-disabled branch of upload_to_minio (the same three cases).
to_jpeg_mode(mode) ==
    IF mode \in {"RGBA", "LA"} THEN FlattenOnWhite(mode)
    ELSE IF mode = "P" THEN FlattenOnWhite(Convert(mode, "RGBA"))
    ELSE IF mode # "RGB" THEN Convert(mode, "RGB") ELSE mode

\* The floor is applied with min where the code has max.
split_quality_min(enabled, q, cmode) ==
    IF ~enabled THEN 95
    ELSE IF cmode = "aggressive" THEN Min(60, q - 10)
    ELSE IF cmode = "ultra" THEN Min(50, q - 20)
    ELSE q

\* upload_to_minio: the quality handed to the JPEG encoder
split_quality(enabled, q, cmode) ==
    IF ~enabled THEN 95
    ELSE IF cmode = "aggressive" THEN Max(60, q - 10)
    ELSE IF cmode = "ultra" THEN Max(50, q - 20)
    ELSE q

(***************************************************************************)
(* The crop pipeline: main of 图片拆分_final.py                             *)
(***************************************************************************)
CompressionModes == {"normal", "aggressive", "ultra"}

\* The source image of the pipeline runs
ImgW == 4

ImgH == 4

\* The most regions of one run
MaxRegions == 2

\* Two rectangles inside the image and a degenerate one
RectPool == {<<1, 1, 3, 3>>, <<0, 0, 2, 2>>, <<2, 1, 2, 3>>}

RectValue(r) == PTuple(<<PInt(r[1]), PInt(r[2]), PInt(r[3]), PInt(r[4])>>)

RECURSIVE RectLists(_)
RectLists(n) ==
    IF n = 0 THEN {<<>>}
    ELSE LET shorter == RectLists(n - 1) IN
         shorter \cup {Append(s, RectValue(r)) : s \in {t \in shorter : Len(t) = n - 1},
                                                  r \in RectPool}

\* crop_coordinates of the pipeline runs: lists of 1..MaxRegions tuples, and an
\* empty list, which normalize_coordinates refuses.
PipelineInputs == {PList(s) : s \in RectLists(MaxRegions)}

\* if auto_infer_from_url and is_url(input_image_url): ... minio_secure = use_ssl
MainInferConfig ==
    /\ pc = "main"
    /\ \E auto_infer_from_url \in BOOLEAN, parsed \in BOOLEAN, use_ssl \in BOOLEAN,
          given \in BOOLEAN :
         minio_secure' = IF auto_infer_from_url /\ parsed THEN use_ssl ELSE given
    /\ pc' = "init_splitter"
    /\ UNCHANGED compVars
    /\ UNCHANGED <<negVars, cfgVars, self_minio_secure, minio_client, bucketChecks,
                   bucketMakes, bucketAbsent, runVars>>
    /\ UNCHANGED upVars

\* ImageSplitter.__init__ up to the call of auto_fix_secure_by_probe
SplitterInit ==
    /\ pc = "init_splitter"
    /\ self_minio_secure' = minio_secure
    /\ secure_guess' = minio_secure
    /\ negPc' = "start"
    /\ negCalls' = negCalls + 1
    /\ pc' = "negotiating"
    /\ UNCHANGED compVars
    /\ UNCHANGED <<preflight_minio_health, forbid_redirect, probeResp, probes, negResult,
                   cfgVars, minio_secure, minio_client, bucketChecks, bucketMakes,
                   bucketAbsent, runVars>>
    /\ UNCHANGED upVars

\* self.minio_secure = auto_fix_secure_by_probe(...); self.minio_client = Minio(...)
\* An exception of the constructor leaves main (main re-raises it).
SplitterCreateClient ==
    /\ pc = "negotiating"
    /\ negPc \in {"done", "raised"}
    /\ probeResp' = NoResp
    /\ IF negPc = "raised"
       THEN /\ pc' = "raised"
            /\ UNCHANGED <<self_minio_secure, minio_client>>
       ELSE /\ self_minio_secure' = negResult
            /\ \E created \in BOOLEAN :
                 IF created
                 THEN /\ minio_client' = [created |-> TRUE, secure |-> negResult]
                      /\ pc' = "test_connection"
                 ELSE /\ pc' = "raised"
                      /\ UNCHANGED minio_client
    /\ UNCHANGED compVars
    /\ UNCHANGED <<negPc, preflight_minio_health, forbid_redirect, secure_guess, probes,
                   negResult, negCalls, cfgVars, minio_secure, bucketChecks, bucketMakes,
                   bucketAbsent, runVars>>
    /\ UNCHANGED upVars

\* The bucket is created whatever the check reported.
make_bucket_always(exists) == TRUE

\* if bucket_exists(bucket): ... else: make_bucket(bucket)
make_bucket_needed(exists) == ~exists

\* ImageSplitter._test_connection: bucket_exists, make_bucket when absent; any
\* exception is raised again and leaves main.
TestConnection ==
    /\ pc = "test_connection"
    /\ \E check \in {"exists", "absent", "raises"}, made \in BOOLEAN :
         LET make == check # "raises" /\ make_bucket_needed(check = "exists") IN
         /\ (~make => made)
         /\ bucketChecks' = bucketChecks + 1
         /\ bucketAbsent' = IF check = "absent" THEN bucketAbsent + 1 ELSE bucketAbsent
         /\ bucketMakes' = IF make THEN bucketMakes + 1 ELSE bucketMakes
         /\ pc' = IF check = "raises" \/ (make /\ ~made) THEN "raised" ELSE "process_image"
    /\ UNCHANGED compVars
    /\ UNCHANGED <<negVars, cfgVars, minio_secure, self_minio_secure, minio_client,
                   runVars>>
    /\ UNCHANGED upVars

\* The failure is recorded and the stage is entered again.
Fail_retry(err) ==
    /\ result' = [NoResult EXCEPT !.returned = TRUE, !.error = err]
    /\ pc' = pc

\* return {"success": False, "error": str(e)}, then the finally block
Fail(err) ==
    /\ result' = [NoResult EXCEPT !.returned = TRUE, !.error = err]
    /\ pc' = "finally"

\* What requests.get of the image URL can produce: a response with a status
\* and with or without a Location header, or an exception of the HTTP client.
\* Only a 3xx response is distinguished by its Location header.
DownloadOutcomes ==
    {[kind |-> "status", code |-> c, location |-> l] :
        c \in {200, 300, 302, 404}, l \in BOOLEAN}
      \cup {[kind |-> k, code |-> 0, location |-> FALSE] : k \in {"ssl_error", "request_error"}}

\* resp.is_redirect of the HTTP client: a Location header and a redirect status
is_redirect(resp) ==
    resp.location /\ resp.code \in {301, 302, 303, 307, 308}

\* allow_redirects = not forbid_redirect: the client itself follows a redirect,
\* so the response the caller sees is never one
Followed(resp) ==
    ~forbid_redirect /\ resp.kind = "status" /\ is_redirect(resp)

\* process_image: downloaded_file = download_image_from_url(image_url)
DownloadImage ==
    /\ pc = "process_image"
    /\ \E resp \in DownloadOutcomes, written \in BOOLEAN, mode \in ImageModes,
          valid \in BOOLEAN :
         /\ ~Followed(resp)
         /\ (resp.code \notin 300..399 => ~resp.location)
         /\ (resp.code = 200 => valid)
         /\ IF resp.kind # "status" THEN
                Fail("download") /\ UNCHANGED <<downloaded_file, disk, img>>
            ELSE IF forbid_redirect /\ is_redirect(resp) THEN
                Fail("redirect") /\ UNCHANGED <<downloaded_file, disk, img>>
            ELSE IF resp.code >= 400 THEN
                Fail("download") /\ UNCHANGED <<downloaded_file, disk, img>>
            ELSE IF ~written THEN
                \* open(local_path, "wb") created the file, a write raised
                /\ Fail("download")
                /\ disk' = disk \cup {"downloaded"}
                /\ UNCHANGED <<downloaded_file, img>>
            ELSE
                /\ downloaded_file' = "downloaded"
                /\ disk' = disk \cup {"downloaded"}
                /\ img' = [w |-> ImgW, h |-> ImgH, mode |-> mode,
                           valid |-> valid, status |-> resp.code]
                /\ (resp.code # 200 => mode = "RGB")
                /\ pc' = "normalize"
                /\ UNCHANGED result
    /\ UNCHANGED compVars
    /\ UNCHANGED <<negVars, cfgVars, connVars, crop_coordinates, coordinates_list, i,
                   cropped, cropCalls, attempted, jpegInputs, encodeQualities, store,
                   results>>
    /\ UNCHANGED upVars

\* coordinates_list = normalize_coordinates(coordinates); results = []
NormalizeCoordinates ==
    /\ pc = "normalize"
    /\ LET n == normalize_coordinates(crop_coordinates) IN
         IF n.ok
         THEN /\ coordinates_list' = n.boxes
              /\ i' = 1
              /\ pc' = "loop"
              /\ UNCHANGED result
         ELSE /\ Fail("malformed")
              /\ UNCHANGED <<coordinates_list, i>>
    /\ UNCHANGED compVars
    /\ UNCHANGED <<negVars, cfgVars, connVars, crop_coordinates, downloaded_file, disk,
                   img, cropped, cropCalls, attempted, jpegInputs, encodeQualities,
                   store, results>>
    /\ UNCHANGED upVars

\* img.crop(box) of the imaging library: a box whose right edge is left of
\* its left edge (or lower above upper) is refused with ValueError by recent
\* releases of the library and cropped to an empty image by older ones.
Inverted(box) == box[3] < box[1] \/ box[4] < box[2]

\* cropped = self.crop_image(downloaded_file, coords)
CropRegion ==
    /\ pc = "loop"
    /\ i <= Len(coordinates_list)
    /\ attempted' = attempted \cup {i}
    /\ LET c == crop_image(coordinates_list[i], img.w, img.h) IN
         IF c.raised THEN
             /\ Fail("invalid_rectangle")
             /\ UNCHANGED <<cropped, cropCalls>>
         ELSE IF ~img.valid THEN
             \* Image.open raises: the file holds no image
             /\ Fail("decode")
             /\ UNCHANGED <<cropped, cropCalls>>
         ELSE
             /\ cropCalls' = cropCalls \cup {c.box}
             /\ \E refused \in BOOLEAN :
                  /\ (refused => Inverted(c.box))
                  /\ IF refused
                     THEN Fail("codec_crop") /\ UNCHANGED cropped
                     ELSE /\ cropped' = [box |-> c.box, mode |-> img.mode]
                          /\ pc' = "upload"
                          /\ UNCHANGED result
    /\ UNCHANGED compVars
    /\ UNCHANGED <<negVars, cfgVars, connVars, crop_coordinates, downloaded_file, disk,
                   img, coordinates_list, i, jpegInputs, encodeQualities, store, results>>
    /\ UNCHANGED upVars

\* The scheme is fixed and ignores the negotiated flag.
url_protocol_https(secure) == "https"

\* protocol = "https" if self.minio_secure else "http"
url_protocol(secure) == IF secure THEN "https" ELSE "http"

\* The entry carries the zero-based position of the region.
result_entry_zero_based(idx, coords, url, box) ==
    [index |-> idx - 1, coordinates |-> coords, minio_url |-> url,
     size |-> <<box[3] - box[1], box[4] - box[2]>>]

\* results.append({"index": i, "coordinates": coords, "minio_url": url,
\*                 "size": cropped.size, ...})
result_entry(idx, coords, url, box) ==
    [index |-> idx, coordinates |-> coords, minio_url |-> url,
     size |-> <<box[3] - box[1], box[4] - box[2]>>]

\* url = self.upload_to_minio(cropped, output_name); results.append({...})
UploadRegion ==
    /\ pc = "upload"
    /\ LET mode == to_jpeg_mode(cropped.mode)
           q == split_quality(enable_compression, compression_quality,
                              compression_mode)
           scheme == url_protocol(self_minio_secure) IN
         /\ jpegInputs' = jpegInputs \cup {mode}
         /\ encodeQualities' = encodeQualities \cup {q}
         /\ IF mode \notin JpegWritable THEN
                Fail("encode") /\ UNCHANGED <<store, results, i, cropped>>
            ELSE \E put \in BOOLEAN :
                IF ~put THEN
                    Fail("upload") /\ UNCHANGED <<store, results, i, cropped>>
                ELSE
                    /\ store' = store \cup {[key |-> i, scheme |-> scheme,
                                             client_secure |-> minio_client.secure]}
                    /\ results' = Append(results,
                                         result_entry(i, coordinates_list[i],
                                                      [scheme |-> scheme, key |-> i],
                                                      cropped.box))
                    /\ i' = i + 1
                    /\ cropped' = NoCrop
                    /\ pc' = "loop"
                    /\ UNCHANGED result
    /\ UNCHANGED compVars
    /\ UNCHANGED <<negVars, cfgVars, connVars, crop_coordinates, downloaded_file, disk,
                   img, coordinates_list, cropCalls, attempted>>
    /\ UNCHANGED upVars

\* return {"success": True, "total_crops": len(results), "results": results, ...}
ReturnSuccess ==
    /\ pc = "loop"
    /\ i > Len(coordinates_list)
    /\ result' = [returned |-> TRUE, success |-> TRUE, error |-> "none",
                  total_crops |-> Len(results), results |-> results,
                  minio_secure |-> self_minio_secure]
    /\ pc' = "finally"
    /\ UNCHANGED compVars
    /\ UNCHANGED <<negVars, cfgVars, connVars, crop_coordinates, downloaded_file, disk,
                   img, coordinates_list, i, cropped, cropCalls, attempted, jpegInputs,
                   encodeQualities, store, results>>
    /\ UNCHANGED upVars

\* finally: if cleanup_downloaded and downloaded_file and os.path.exists(...):
\* os.remove (a failure of os.remove is swallowed); main returns the result
Finally ==
    /\ pc = "finally"
    /\ \E cleanup_downloaded \in BOOLEAN, removed \in BOOLEAN :
         disk' = IF cleanup_downloaded /\ downloaded_file # "none"
                    /\ downloaded_file \in disk /\ removed
                 THEN disk \ {downloaded_file} ELSE disk
    /\ pc' = "done"
    /\ UNCHANGED compVars
    /\ UNCHANGED <<negVars, cfgVars, connVars, crop_coordinates, downloaded_file, img,
                   coordinates_list, i, cropped, cropCalls, attempted, jpegInputs,
                   encodeQualities, store, results, result>>
    /\ UNCHANGED upVars

(***************************************************************************)
(* The compress / merge pipeline: main of 图片压缩工具_final.py             *)
(***************************************************************************)
\* The largest size, in bytes, of an encoded file
MaxFileSize == 3

\* The most files of a batch folder
MaxFiles == 2

\* output_format: None (detect from the extension), "JPEG", "PNG" or "AUTO"
OutputFormats == {"none", "JPEG", "PNG", "AUTO"}

\* The modes the codec writes as PNG
PngWritable == {"RGB", "RGBA", "L", "LA", "P", "1", "I"}

\* A local path: a base name, the "_temp" suffix of an AUTO trial file, and
\* the extension.
Path(base, ext) == [base |-> base, temp |-> FALSE, ext |-> ext]

NoPath == [base |-> <<"none", 0>>, temp |-> FALSE, ext |-> ""]

TempPath == Path(<<"tmp", 0>>, "jpg")

\* test_path = f"{base_path}_temp.{fmt.lower()}"
TestPath(out, fmt) ==
    [base |-> out.base, temp |-> TRUE, ext |-> IF fmt = "JPEG" THEN "jpeg" ELSE "png"]

\* final_path = base_path + ('.jpg' if best_format == 'JPEG' else '.png')
FinalPath(out, fmt) ==
    [base |-> out.base, temp |-> out.temp, ext |-> IF fmt = "JPEG" THEN "jpg" ELSE "png"]

\* The local file system: a function from the paths that exist to the byte
\* size of the file.
Exists(f, p) == p \in DOMAIN f

Write(f, p, v) == [n \in DOMAIN f \cup {p} |-> IF n = p THEN v ELSE f[n]]

Remove(f, p) == [n \in DOMAIN f \ {p} |-> f[n]]

Rename(f, a, b) == Write(Remove(f, a), b, f[a])

NoFiles == [n \in {} |-> 0]

\* The trial file of a candidate that raised is left where it is.
discard_trial_keep(f, p) == f

\* except Exception: if os.path.exists(test_path): os.remove(test_path)
discard_trial(f, p) == IF Exists(f, p) THEN Remove(f, p) ELSE f

NoCall == [input |-> NoPath, output_path |-> NoPath, caller |-> "none", k |-> 0,
           quality |-> 0, adjusted |-> 0, mode |-> "none", has_transparency |-> FALSE,
           formats_to_try |-> <<>>, next |-> 0, best_result |-> NoPath,
           best_size |-> -1, best_format |-> "none", original_size |-> 0]

NoCompressResult == [returned |-> FALSE, success |-> FALSE, error |-> "none",
                     format |-> "none", original_size |-> 0, compressed_size |-> 0,
                     output_path |-> NoPath, local_path |-> NoPath]

NoBatch == [n |-> 0, k |-> 0, success |-> 0, failed |-> 0]

NoReturn == [kind |-> "running", upload |-> FALSE, return_url |-> FALSE,
             final_url |-> "none"]

\* The floor is applied with min where the code has max.
compress_quality_min(q, cmode) ==
    IF cmode = "aggressive" THEN Min(60, q - 10)
    ELSE IF cmode = "ultra" THEN Min(50, q - 20)
    ELSE q

\* compress_image: quality after the adjustment for the compression mode
compress_quality(q, cmode) ==
    IF cmode = "aggressive" THEN Max(60, q - 10)
    ELSE IF cmode = "ultra" THEN Max(50, q - 20)
    ELSE q

\* The alpha of a palette or alpha image is dropped by a plain copy.
jpeg_mode_keep(mode, has_transparency) == mode

\* compress_image: the mode of the image handed to the JPEG encoder, in the
\* AUTO loop and in the single-format branch (the same code in both).
jpeg_mode(mode, has_transparency) ==
    IF mode # "RGB"
    THEN IF has_transparency
         THEN FlattenOnWhite(IF mode = "P" THEN Convert(mode, "RGBA") ELSE mode)
         ELSE Convert(mode, "RGB")
    ELSE mode

\* JPEG is tried first whatever the source mode.
formats_to_try_jpeg_first(has_transparency) == <<"JPEG", "PNG">>

\* formats_to_try = ['JPEG']; insert(0, 'PNG') with transparency, else append('PNG')
formats_to_try(has_transparency) ==
    IF has_transparency THEN <<"PNG", "JPEG">> ELSE <<"JPEG", "PNG">>

\* The first candidate that encodes is kept, whatever the sizes.
better_first(test_size, best_size) == best_size = -1

\* test_size < best_size, best_size starting at float('inf') (kept as -1)
better(test_size, best_size) == best_size = -1 \/ test_size < best_size

\* The remaining candidates are given up with the one that raised.
candidate_failed_abort(c) == [c EXCEPT !.next = Len(c.formats_to_try) + 1]

\* except Exception inside the AUTO loop: the candidate is reported and the
\* loop goes on with the next format
candidate_failed(c) == [c EXCEPT !.next = @ + 1]

\* One call of the image encoder (Image.save) and its outcome: where it is
\* made, the batch index, the format, the colour mode handed over, the JPEG
\* quality (0 for PNG), how many times the quality had been adjusted for the
\* compression mode, whether the encoder wrote the file, and the file's size
Encode(site, k, fmt, mode, q, adjusted, saved, size) ==
    [site |-> site, k |-> k, fmt |-> fmt, mode |-> mode, quality |-> q,
     adjusted |-> adjusted, saved |-> saved, size |-> IF saved THEN size ELSE 0]

\* format_map.get(ext, 'JPEG')
format_of_ext(ext) == IF ext = "png" THEN "PNG" ELSE "JPEG"

\* compress_image(...) is called: the frame of the call; mode is the colour
\* mode of the image in the input file ("junk": the file holds no image)
Call(input, out, caller, k, mode) ==
    [NoCall EXCEPT !.input = input, !.output_path = out, !.caller = caller, !.k = k,
                   !.quality = quality, !.mode = mode]

\* The position of the caller after compress_image returned
AfterCompress(caller) ==
    IF caller = "batch" THEN "batch_record"
    ELSE IF caller = "file" THEN "main_after"
    ELSE "minio_after_compress"

CompressFailure(err) == [NoCompressResult EXCEPT !.returned = TRUE, !.error = err]

\* main: the resolution of process_mode and the fatal misuse checks
CMainDispatch ==
    /\ cpc = "main"
    /\ \E pm \in {"auto", "file", "minio"}, has_url_1 \in BOOLEAN, has_url_2 \in BOOLEAN,
          has_input \in BOOLEAN, is_dir \in BOOLEAN, out \in {"none", "jpg", "png"} :
         LET m == IF pm = "auto" THEN (IF has_url_1 THEN "minio" ELSE "file") ELSE pm
             given == IF out = "none" THEN NoPath ELSE Path(<<"out", 0>>, out) IN
         /\ (is_dir => has_input)
         /\ output_path' = given
         /\ IF m = "minio" THEN
                IF ~has_url_1
                THEN /\ process_mode' = "minio"
                     /\ ret' = [NoReturn EXCEPT !.kind = "exit"]
                     /\ cpc' = "done"
                ELSE /\ process_mode' = IF has_url_2 THEN "minio_merge" ELSE "minio_single"
                     /\ cpc' = "download"
                     /\ UNCHANGED ret
            ELSE
                IF ~has_input
                THEN /\ process_mode' = "file"
                     /\ ret' = [NoReturn EXCEPT !.kind = "exit"]
                     /\ cpc' = "done"
                ELSE /\ process_mode' = IF is_dir THEN "file_batch" ELSE "file_single"
                     /\ cpc' = IF is_dir THEN "batch_begin" ELSE "file_call"
                     /\ UNCHANGED ret
    /\ UNCHANGED <<negVars, cfgVars, connVars, pc, runVars, quality, output_format, files,
                   dl, ci, cresult, encodes, batch>>
    /\ UNCHANGED upVars

\* download_image_from_minio, called by download_and_compress_from_minio and
\* (twice) by merge_and_compress_from_minio; None makes the caller return
\* {"success": False, "error": ...}
CDownload ==
    /\ cpc = "download"
    /\ \E resp \in DownloadOutcomes, mode \in ImageModes \cup {"junk"} :
         /\ ~Followed(resp)
         /\ (resp.code \notin 300..399 => ~resp.location)
         /\ (resp.kind # "status" => mode = "junk")
         /\ IF \/ resp.kind # "status"
               \/ (forbid_redirect /\ is_redirect(resp))
               \/ resp.code >= 400
               \/ mode = "junk"
            THEN /\ cresult' = CompressFailure("download")
                 /\ cpc' = "main_after"
                 /\ dl' = <<>>
            ELSE /\ dl' = Append(dl, mode)
                 /\ cpc' = IF process_mode = "minio_merge" /\ Len(dl) = 0
                           THEN "download" ELSE "save_temp"
                 /\ UNCHANGED cresult
    /\ UNCHANGED <<negVars, cfgVars, connVars, pc, runVars, process_mode, quality,
                   output_format, output_path, files, ci, encodes, batch, ret>>
    /\ UNCHANGED upVars

\* merge_images_vertically: the canvas is Image.new('RGB', ...)
merge_images_vertically(mode1, mode2) == "RGB"

\* temp_file = NamedTemporaryFile(delete=False, suffix='.jpg');
\* img.save(temp_path, 'JPEG', quality=95); compress_image(temp_path, ...)
\* An exception of save is caught by the except of the function.
CSaveTemp ==
    /\ cpc = "save_temp"
    /\ LET mode == IF process_mode = "minio_merge"
                   THEN merge_images_vertically(dl[1], dl[2]) ELSE dl[1]
           created == Write(files, TempPath, 0)
           default == IF process_mode = "minio_merge"
                      THEN Path(<<"merged_compressed", 0>>, "jpg")
                      ELSE Path(<<"compressed", 0>>, "jpg")
           out == IF output_path = NoPath THEN default ELSE output_path IN
         /\ \E saved \in BOOLEAN, size \in 1..MaxFileSize :
              /\ (mode \notin JpegWritable => ~saved)
              /\ (~saved => size = 1)
              /\ encodes' = encodes \cup
                               {Encode("temp", 0, "JPEG", mode, 95, 0, saved, size)}
              /\ IF saved
                 THEN /\ files' = Write(created, TempPath, size)
                      /\ ci' = Call(TempPath, out, "minio", 0, mode)
                      /\ cpc' = "compress_begin"
                      /\ UNCHANGED cresult
                 ELSE /\ files' = created
                      /\ cresult' = CompressFailure("encode")
                      /\ cpc' = "main_after"
                      /\ UNCHANGED ci
    /\ dl' = <<>>
    /\ UNCHANGED <<negVars, cfgVars, connVars, pc, runVars, process_mode, quality,
                   output_format, output_path, batch, ret>>
    /\ UNCHANGED upVars

\* main, single file: compress_image(input_path, output_path, ...)
CFileCall ==
    /\ cpc = "file_call"
    /\ \E there \in BOOLEAN, mode \in ImageModes \cup {"junk"}, ext \in {"jpg", "png"} :
         LET input == Path(<<"in", 0>>, ext) IN
         /\ (~there => mode = "junk")
         /\ files' = IF there THEN Write(files, input, MaxFileSize) ELSE files
         /\ ci' = Call(input, output_path, "file", 0, mode)
    /\ cpc' = "compress_begin"
    /\ UNCHANGED <<negVars, cfgVars, connVars, pc, runVars, process_mode, quality,
                   output_format, output_path, dl, cresult, encodes, batch, ret>>
    /\ UNCHANGED upVars

\* batch_compress up to the loop: the folder, its image files, the output folder
CBatchBegin ==
    /\ cpc = "batch_begin"
    /\ \E is_folder \in BOOLEAN, n \in 0..MaxFiles :
         /\ (~is_folder => n = 0)
         /\ IF n = 0
            THEN /\ ret' = [NoReturn EXCEPT !.kind = "none"]
                 /\ cpc' = "done"
                 /\ UNCHANGED batch
            ELSE /\ batch' = [n |-> n, k |-> 1, success |-> 0, failed |-> 0]
                 /\ cpc' = "batch_loop"
                 /\ UNCHANGED ret
    /\ UNCHANGED <<negVars, cfgVars, connVars, pc, runVars, process_mode, quality,
                   output_format, output_path, files, dl, ci, cresult, encodes>>
    /\ UNCHANGED upVars

\* for i, filename in enumerate(image_files, 1): result = compress_image(...)
CBatchCall ==
    /\ cpc = "batch_loop"
    /\ batch.k <= batch.n
    /\ \E mode \in ImageModes \cup {"junk"}, ext \in {"jpg", "png"} :
         LET input == Path(<<"folder", batch.k>>, ext)
             out == Path(<<"compressed", batch.k>>, ext) IN
         /\ files' = Write(files, input, MaxFileSize)
         /\ ci' = Call(input, out, "batch", batch.k, mode)
    /\ encodes' = {}
    /\ cpc' = "compress_begin"
    /\ UNCHANGED <<negVars, cfgVars, connVars, pc, runVars, process_mode, quality,
                   output_format, output_path, dl, cresult, batch, ret>>
    /\ UNCHANGED upVars

\* results["success"] += 1 or results["failed"] += 1; results["details"].append
CBatchRecord ==
    /\ cpc = "batch_record"
    /\ batch' = [batch EXCEPT !.k = @ + 1,
                              !.success = IF cresult.success THEN @ + 1 ELSE @,
                              !.failed = IF cresult.success THEN @ ELSE @ + 1]
    /\ cpc' = "batch_loop"
    /\ UNCHANGED <<negVars, cfgVars, connVars, pc, runVars, process_mode, quality,
                   output_format, output_path, files, dl, ci, cresult, encodes, ret>>
    /\ UNCHANGED upVars

\* batch_compress returns its results; main drops them and returns None
CBatchEnd ==
    /\ cpc = "batch_loop"
    /\ batch.k > batch.n
    /\ ret' = [NoReturn EXCEPT !.kind = "none"]
    /\ cpc' = "done"
    /\ UNCHANGED <<negVars, cfgVars, connVars, pc, runVars, process_mode, quality,
                   output_format, output_path, files, dl, ci, cresult, encodes, batch>>
    /\ UNCHANGED upVars

\* compress_image up to the choice of the format: the existence check, the
\* adjustment of quality for the compression mode, Image.open
CompressBegin ==
    /\ cpc = "compress_begin"
    /\ IF ~Exists(files, ci.input) THEN
           /\ cresult' = CompressFailure("missing")
           /\ cpc' = AfterCompress(ci.caller)
           /\ ci' = NoCall
       ELSE IF ci.mode = "junk" THEN
           \* Image.open raises; the quality was adjusted before
           /\ cresult' = CompressFailure("decode")
           /\ cpc' = AfterCompress(ci.caller)
           /\ ci' = NoCall
       ELSE
           LET transparent == ci.mode \in {"RGBA", "LA", "P"} IN
           /\ ci' = [ci EXCEPT
                        !.quality = compress_quality(@, compression_mode),
                        !.adjusted = @ + 1,
                        !.original_size = files[ci.input],
                        !.has_transparency = transparent,
                        !.output_path = IF @ = NoPath THEN ci.input ELSE @,
                        !.formats_to_try = formats_to_try(transparent),
                        !.next = 1]
           /\ cpc' = IF output_format = "AUTO" THEN "auto_try" ELSE "encode_single"
           /\ UNCHANGED cresult
    /\ UNCHANGED <<negVars, cfgVars, connVars, pc, runVars, process_mode, quality,
                   output_format, output_path, files, dl, encodes, batch, ret>>
    /\ UNCHANGED upVars

\* One iteration of the AUTO loop: the candidate is encoded into its trial
\* file; it becomes the best one or is removed; a candidate that raises is
\* skipped.
CompressAutoTry ==
    /\ cpc = "auto_try"
    /\ ci.next <= Len(ci.formats_to_try)
    /\ LET fmt == ci.formats_to_try[ci.next]
           test_path == TestPath(ci.output_path, fmt)
           mode == IF fmt = "JPEG" THEN jpeg_mode(ci.mode, ci.has_transparency)
                   ELSE ci.mode IN
         /\ \E saved \in BOOLEAN, partial \in BOOLEAN, test_size \in 1..MaxFileSize :
              /\ (fmt = "JPEG" /\ mode \notin JpegWritable => ~saved)
              /\ (fmt = "PNG" /\ mode \notin PngWritable => ~saved)
              /\ (~saved => test_size = 1)
              /\ (saved => ~partial)
              /\ encodes' = encodes \cup
                               {Encode("compress", ci.k, fmt, mode,
                                       IF fmt = "JPEG" THEN ci.quality ELSE 0,
                                       ci.adjusted, saved, test_size)}
              /\ IF saved
                 THEN LET written == Write(files, test_path, test_size) IN
                      IF better(test_size, ci.best_size)
                      THEN /\ files' = IF ci.best_result # NoPath
                                          /\ Exists(written, ci.best_result)
                                       THEN Remove(written, ci.best_result)
                                       ELSE written
                           /\ ci' = [ci EXCEPT !.best_size = test_size,
                                               !.best_format = fmt,
                                               !.best_result = test_path,
                                               !.next = @ + 1]
                      ELSE /\ files' = Remove(written, test_path)
                           /\ ci' = [ci EXCEPT !.next = @ + 1]
                 ELSE \* the save that raised may have left a part of the file
                      /\ files' = discard_trial(IF partial
                                                 THEN Write(files, test_path, 0)
                                                 ELSE files, test_path)
                      /\ ci' = candidate_failed(ci)
    /\ UNCHANGED <<negVars, cfgVars, connVars, pc, runVars, cpc, process_mode, quality,
                   output_format, output_path, dl, cresult, batch, ret>>
    /\ UNCHANGED upVars

\* After the AUTO loop: the best trial file is renamed to the final path and
\* the result is built; with no candidate left "所有格式尝试都失败" is raised
\* and caught by the except of compress_image.
CompressAutoCommit ==
    /\ cpc = "auto_try"
    /\ ci.next > Len(ci.formats_to_try)
    /\ IF ci.best_result # NoPath
       THEN LET final_path == FinalPath(ci.output_path, ci.best_format)
                cleared == IF Exists(files, final_path) THEN Remove(files, final_path)
                           ELSE files
                moved == IF final_path # ci.best_result
                         THEN Rename(cleared, ci.best_result, final_path)
                         ELSE files IN
            /\ files' = moved
            /\ cresult' = [NoCompressResult EXCEPT
                              !.returned = TRUE, !.success = TRUE,
                              !.format = ci.best_format,
                              !.original_size = ci.original_size,
                              !.compressed_size = moved[final_path],
                              !.output_path = final_path]
       ELSE /\ cresult' = CompressFailure("all_failed")
            /\ UNCHANGED files
    /\ cpc' = AfterCompress(ci.caller)
    /\ ci' = NoCall
    /\ UNCHANGED <<negVars, cfgVars, connVars, pc, runVars, process_mode, quality,
                   output_format, output_path, dl, encodes, batch, ret>>
    /\ UNCHANGED upVars

\* The branch of a single format: the format of the extension when none is
\* given, the colour mode for JPEG, the extension of the output path, save
CompressEncodeSingle ==
    /\ cpc = "encode_single"
    /\ LET fmt == IF output_format = "none" THEN format_of_ext(ci.output_path.ext)
                  ELSE output_format
           mode == IF fmt = "JPEG" THEN jpeg_mode(ci.mode, ci.has_transparency)
                   ELSE ci.mode
           out == IF fmt = "JPEG" /\ ci.output_path.ext \notin {"jpg", "jpeg"}
                  THEN FinalPath(ci.output_path, "JPEG")
                  ELSE IF fmt = "PNG" /\ ci.output_path.ext # "png"
                       THEN FinalPath(ci.output_path, "PNG")
                       ELSE ci.output_path IN
         /\ \E saved \in BOOLEAN, size \in 1..MaxFileSize :
              /\ (fmt = "JPEG" /\ mode \notin JpegWritable => ~saved)
              /\ (fmt = "PNG" /\ mode \notin PngWritable => ~saved)
              /\ (~saved => size = 1)
              /\ encodes' = encodes \cup
                               {Encode("compress", ci.k, fmt, mode,
                                       IF fmt = "JPEG" THEN ci.quality ELSE 0,
                                       ci.adjusted, saved, size)}
              /\ IF saved
                 THEN /\ files' = Write(files, out, size)
                      /\ cresult' = [NoCompressResult EXCEPT
                                        !.returned = TRUE, !.success = TRUE,
                                        !.format = fmt,
                                        !.original_size = ci.original_size,
                                        !.compressed_size = size,
                                        !.output_path = out]
                 ELSE /\ cresult' = CompressFailure("encode")
                      /\ UNCHANGED files
    /\ cpc' = AfterCompress(ci.caller)
    /\ ci' = NoCall
    /\ UNCHANGED <<negVars, cfgVars, connVars, pc, runVars, process_mode, quality,
                   output_format, output_path, dl, batch, ret>>
    /\ UNCHANGED upVars

\* download_and_compress_from_minio / merge_and_compress_from_minio after
\* compress_image: the temporary file is removed, the result completed
CAfterCompressMinio ==
    /\ cpc = "minio_after_compress"
    /\ files' = IF Exists(files, TempPath) THEN Remove(files, TempPath) ELSE files
    \* result["original_size"] is set to the size of the temporary file, which
    \* compress_image measured too
    /\ cresult' = IF cresult.success
                  THEN [cresult EXCEPT !.local_path = cresult.output_path]
                  ELSE cresult
    /\ cpc' = "main_after"
    /\ UNCHANGED <<negVars, cfgVars, connVars, pc, runVars, process_mode, quality,
                   output_format, output_path, dl, ci, encodes, batch, ret>>
    /\ UNCHANGED upVars

\* main after the processing: sys.exit(1) on a failed result; otherwise the
\* upload when upload_to_minio is set and the result names a local file
CMainAfter ==
    /\ cpc = "main_after"
    /\ IF ~cresult.success
       THEN /\ ret' = [NoReturn EXCEPT !.kind = "exit"]
            /\ cpc' = "done"
       ELSE \E upload_to_minio \in BOOLEAN, return_url \in BOOLEAN :
            /\ ret' = [NoReturn EXCEPT !.upload = upload_to_minio,
                                       !.return_url = return_url]
            /\ cpc' = IF upload_to_minio THEN "upload" ELSE "return"
    /\ UNCHANGED <<negVars, cfgVars, connVars, pc, runVars, process_mode, quality,
                   output_format, output_path, files, dl, ci, cresult, encodes, batch>>
    /\ UNCHANGED upVars

\* upload_to_minio_storage: Minio(...), bucket_exists, make_bucket when absent,
\* fput_object; the URL, or None after any exception
CUpload ==
    /\ cpc = "upload"
    /\ \E use_ssl \in BOOLEAN,
          outcome \in {"client_fails", "check_fails", "make_fails", "put_fails",
                       "exists", "created"} :
         LET scheme == url_protocol(use_ssl) IN
         /\ minio_client' = IF outcome = "client_fails" THEN minio_client
                            ELSE [created |-> TRUE, secure |-> use_ssl]
         /\ bucketChecks' = IF outcome = "client_fails" THEN bucketChecks
                            ELSE bucketChecks + 1
         /\ bucketAbsent' = IF outcome \in {"make_fails", "created"}
                            THEN bucketAbsent + 1 ELSE bucketAbsent
         /\ bucketMakes' = IF outcome \notin {"client_fails", "check_fails"}
                              /\ make_bucket_needed(outcome \in {"exists", "put_fails"})
                           THEN bucketMakes + 1 ELSE bucketMakes
         /\ IF outcome \in {"exists", "created"}
            THEN /\ store' = store \cup {[key |-> 0, scheme |-> scheme,
                                          client_secure |-> use_ssl]}
                 /\ ret' = [ret EXCEPT !.final_url = scheme]
            ELSE UNCHANGED <<store, ret>>
    /\ cpc' = "return"
    /\ UNCHANGED <<negVars, cfgVars, minio_secure, self_minio_secure, pc,
                   crop_coordinates, downloaded_file, disk, img, coordinates_list, i,
                   cropped, cropCalls, attempted, jpegInputs, encodeQualities, results,
                   result, process_mode, quality, output_format, output_path, files, dl,
                   ci, cresult, encodes, batch>>
    /\ UNCHANGED upVars

\* main: the local file is removed after an upload with return_url; the URL,
\* the local path or the result is returned
CMainReturn ==
    /\ cpc = "return"
    /\ LET local == cresult.output_path IN
         /\ \E removed \in BOOLEAN :
              files' = IF ret.final_url # "none" /\ ret.return_url /\ Exists(files, local)
                          /\ removed
                       THEN Remove(files, local) ELSE files
         /\ ret' = [ret EXCEPT !.kind = IF ret.return_url /\ ret.final_url # "none"
                                        THEN "url"
                                        ELSE IF local # NoPath THEN "local_path"
                                        ELSE "result"]
    /\ cpc' = "done"
    /\ UNCHANGED <<negVars, cfgVars, connVars, pc, runVars, process_mode, quality,
                   output_format, output_path, dl, ci, cresult, encodes, batch>>
    /\ UNCHANGED upVars

InitCompress ==
    /\ negPc = "idle"
    \* the tool declares preflight_minio_health=True and never reads it
    /\ preflight_minio_health = TRUE
    /\ forbid_redirect = TRUE
    /\ secure_guess = FALSE
    /\ probeResp = NoResp
    /\ probes = <<>>
    /\ negResult = FALSE
    /\ negCalls = 0
    /\ pc = "idle"
    /\ enable_compression = TRUE
    /\ compression_quality = 85
    /\ compression_mode \in CompressionModes
    /\ crop_coordinates = PNone
    /\ minio_secure = FALSE
    /\ self_minio_secure = FALSE
    /\ minio_client = [created |-> FALSE, secure |-> FALSE]
    /\ bucketChecks = 0
    /\ bucketMakes = 0
    /\ bucketAbsent = 0
    /\ downloaded_file = "none"
    /\ disk = {}
    /\ img = NoImage
    /\ coordinates_list = <<>>
    /\ i = 0
    /\ cropped = NoCrop
    /\ cropCalls = {}
    /\ attempted = {}
    /\ jpegInputs = {}
    /\ encodeQualities = {}
    /\ store = {}
    /\ results = <<>>
    /\ result = NoResult
    /\ cpc = "main"
    /\ process_mode = "auto"
    /\ quality \in {50, 75}
    /\ output_format \in OutputFormats
    /\ output_path = NoPath
    /\ files = NoFiles
    /\ dl = <<>>
    /\ ci = NoCall
    /\ cresult = NoCompressResult
    /\ encodes = {}
    /\ batch = NoBatch
    /\ ret = NoReturn
    /\ clock = 0
    /\ uploads = <<>>

NextCompress ==
    \/ CMainDispatch
    \/ CDownload
    \/ CSaveTemp
    \/ CFileCall
    \/ CBatchBegin
    \/ CBatchCall
    \/ CBatchRecord
    \/ CBatchEnd
    \/ CompressBegin
    \/ CompressAutoTry
    \/ CompressAutoCommit
    \/ CompressEncodeSingle
    \/ CAfterCompressMinio
    \/ CMainAfter
    \/ CUpload
    \/ CMainReturn

SpecCompress == InitCompress /\ [][NextCompress]_vars

(***************************************************************************)
(* Specifications                                                          *)
(***************************************************************************)
InitSplit ==
    /\ negPc = "idle"
    /\ preflight_minio_health \in BOOLEAN
    /\ forbid_redirect \in BOOLEAN
    /\ secure_guess = FALSE
    /\ probeResp = NoResp
    /\ probes = <<>>
    /\ negResult = FALSE
    /\ negCalls = 0
    /\ pc = "main"
    /\ enable_compression \in BOOLEAN
    /\ compression_quality \in {55, 85}
    /\ compression_mode \in CompressionModes
    /\ crop_coordinates \in PipelineInputs
    /\ minio_secure = FALSE
    /\ self_minio_secure = FALSE
    /\ minio_client = [created |-> FALSE, secure |-> FALSE]
    /\ bucketChecks = 0
    /\ bucketMakes = 0
    /\ bucketAbsent = 0
    /\ downloaded_file = "none"
    /\ disk = {}
    /\ img = NoImage
    /\ coordinates_list = <<>>
    /\ i = 0
    /\ cropped = NoCrop
    /\ cropCalls = {}
    /\ attempted = {}
    /\ jpegInputs = {}
    /\ encodeQualities = {}
    /\ store = {}
    /\ results = <<>>
    /\ result = NoResult
    /\ cpc = "idle"
    /\ process_mode = "auto"
    /\ quality = 75
    /\ output_format = "none"
    /\ output_path = NoPath
    /\ files = NoFiles
    /\ dl = <<>>
    /\ ci = NoCall
    /\ cresult = NoCompressResult
    /\ encodes = {}
    /\ batch = NoBatch
    /\ ret = NoReturn
    /\ clock = 0
    /\ uploads = <<>>

NextSplit ==
    \/ MainInferConfig
    \/ SplitterInit
    \/ AutoFixSkip
    \/ ProbeGuess
    \/ ProbeFlipped
    \/ SplitterCreateClient
    \/ TestConnection
    \/ DownloadImage
    \/ NormalizeCoordinates
    \/ CropRegion
    \/ UploadRegion
    \/ ReturnSuccess
    \/ Finally

Spec == InitSplit /\ [][NextSplit]_vars

\* The runs of the crop pipeline with the default compression settings
InitFair ==
    /\ InitSplit
    /\ enable_compression
    /\ compression_quality = 85
    /\ compression_mode = "normal"

\* main is a sequential program: a statement that can execute does execute
FairSpec == InitFair /\ [][NextSplit]_vars /\ WF_vars(NextSplit)

(***************************************************************************)
(* crop_image on its own: one rectangle, given as a tuple, is normalized   *)
(* and cropped out of an image that was downloaded; every rectangle with   *)
(* coordinates in -1..MaxCoord and every image up to MaxDim x MaxDim.      *)
(***************************************************************************)
MaxCoord == 4

MaxDim == 3

InitCrop ==
    /\ negPc = "done"
    /\ preflight_minio_health = FALSE
    /\ forbid_redirect = TRUE
    /\ secure_guess = FALSE
    /\ probeResp = NoResp
    /\ probes = <<>>
    /\ negResult = FALSE
    /\ negCalls = 1
    /\ pc = "normalize"
    /\ enable_compression = TRUE
    /\ compression_quality = 85
    /\ compression_mode = "normal"
    /\ crop_coordinates \in {RectValue(<<a, b, c, d>>) :
                                a \in -1..MaxCoord, b \in -1..MaxCoord,
                                c \in -1..MaxCoord, d \in -1..MaxCoord}
    /\ minio_secure = FALSE
    /\ self_minio_secure = FALSE
    /\ minio_client = [created |-> TRUE, secure |-> FALSE]
    /\ bucketChecks = 1
    /\ bucketMakes = 0
    /\ bucketAbsent = 0
    /\ downloaded_file = "downloaded"
    /\ disk = {"downloaded"}
    /\ img \in {[w |-> w, h |-> h, mode |-> "RGB", valid |-> TRUE, status |-> 200] :
                   w \in 1..MaxDim, h \in 1..MaxDim}
    /\ coordinates_list = <<>>
    /\ i = 0
    /\ cropped = NoCrop
    /\ cropCalls = {}
    /\ attempted = {}
    /\ jpegInputs = {}
    /\ encodeQualities = {}
    /\ store = {}
    /\ results = <<>>
    /\ result = NoResult
    /\ cpc = "idle"
    /\ process_mode = "auto"
    /\ quality = 75
    /\ output_format = "none"
    /\ output_path = NoPath
    /\ files = NoFiles
    /\ dl = <<>>
    /\ ci = NoCall
    /\ cresult = NoCompressResult
    /\ encodes = {}
    /\ batch = NoBatch
    /\ ret = NoReturn
    /\ clock = 0
    /\ uploads = <<>>

NextCrop ==
    \/ NormalizeCoordinates
    \/ CropRegion

SpecCrop == InitCrop /\ [][NextCrop]_vars

(***************************************************************************)
(* normalize_coordinates on its own: process_image has downloaded the      *)
(* image and normalizes crop_coordinates, which is one rectangle in each   *)
(* accepted encoding, a list of region descriptors, a shape holding a bool *)
(* or a string of up to one bracket level.                                 *)
(***************************************************************************)
\* The coordinates of the encoded rectangles are in -1..MaxNormCoord
MaxNormCoord == 2

\* The most descriptors of a list of regions
MaxDescriptors == 2

NormRects ==
    {<<a, b, c, d>> : a \in -1..MaxNormCoord, b \in -1..MaxNormCoord,
                      c \in -1..MaxNormCoord, d \in -1..MaxNormCoord}

\* The encodings of four values vs (ints, or other Python values)
EncTuple(vs) == PTuple(vs)

EncList(vs) == PList(vs)

EncDictCorners(vs) ==
    PDict(<< <<"x1", vs[1]>>, <<"y1", vs[2]>>, <<"x2", vs[3]>>, <<"y2", vs[4]>> >>)

EncDictEdges(vs) ==
    PDict(<< <<"left", vs[1]>>, <<"top", vs[2]>>, <<"right", vs[3]>>,
             <<"bottom", vs[4]>> >>)

\* vs is x, y, w, h
EncDictSize(vs) ==
    PDict(<< <<"x", vs[1]>>, <<"y", vs[2]>>, <<"w", vs[3]>>, <<"h", vs[4]>> >>)

EncTwoPoint(vs) == PList(<<PList(<<vs[1], vs[2]>>), PList(<<vs[3], vs[4]>>)>>)

Ints(r) == <<PInt(r[1]), PInt(r[2]), PInt(r[3]), PInt(r[4])>>

\* The four encodings of one rectangle given as numbers
FourEncodings(r) ==
    {EncTuple(Ints(r)), EncList(Ints(r)), EncDictCorners(Ints(r)), EncDictEdges(Ints(r))}

\* A region descriptor: a shape and the rectangle it describes
DescriptorShapes == {"corners", "edges", "size", "list", "tuple", "two_point"}

DescriptorRects == {<<0, 0, 1, 1>>, <<1, 0, 2, 2>>}

Descriptors == [shape : DescriptorShapes, rect : DescriptorRects]

Describe(d) ==
    IF d.shape = "corners" THEN EncDictCorners(Ints(d.rect))
    ELSE IF d.shape = "edges" THEN EncDictEdges(Ints(d.rect))
    ELSE IF d.shape = "size"
    THEN EncDictSize(<<PInt(d.rect[1]), PInt(d.rect[2]),
                       PInt(d.rect[3] - d.rect[1]), PInt(d.rect[4] - d.rect[2])>>)
    ELSE IF d.shape = "list" THEN EncList(Ints(d.rect))
    ELSE IF d.shape = "tuple" THEN EncTuple(Ints(d.rect))
    ELSE EncTwoPoint(Ints(d.rect))

\* The sequences of 1..n descriptors
RECURSIVE DescriptorSeqs(_)
DescriptorSeqs(n) ==
    IF n = 0 THEN {}
    ELSE LET shorter == DescriptorSeqs(n - 1) IN
         shorter \cup {<<d>> : d \in Descriptors}
                 \cup {Append(ds, d) : ds \in {t \in shorter : Len(t) = n - 1},
                                        d \in Descriptors}

DescribeAll(ds) == PList([k \in 1..Len(ds) |-> Describe(ds[k])])

\* Four values of which one is a bool
WithBool ==
    {[Ints(<<0, 0, 1, 1>>) EXCEPT ![k] = PBool(b)] : k \in 1..4, b \in BOOLEAN}

BoolInputs ==
    UNION {{EncTuple(vs), EncList(vs), EncDictCorners(vs), EncDictEdges(vs),
            EncDictSize(vs), EncTwoPoint(vs), PList(<<EncList(vs)>>)} : vs \in WithBool}

\* The fields of the strings: numbers as JSON and Python write them, a number
\* with a leading zero, a number with a fraction, the two spellings of true,
\* and a word
NumberToks == {Tok("intlit", 1), Tok("intlit", 3), Tok("floatlit", 25),
               Tok("zerolit", 2)}

OtherToks == {Tok("true", 1), Tok("True", 1), Tok("word", 0)}

FieldLists ==
    [1..4 -> NumberToks]
      \cup {[[k \in 1..4 |-> Tok("intlit", 1)] EXCEPT ![j] = o] :
               j \in 1..4, o \in OtherToks}
      \cup {[k \in 1..3 |-> Tok("intlit", 1)], [k \in 1..5 |-> Tok("intlit", 1)],
             [k \in 1..3 |-> Tok("zerolit", 2)]}

\* The fields joined with commas
RECURSIVE Join(_)
Join(fields) ==
    IF Len(fields) = 1 THEN <<fields[1]>>
    ELSE <<fields[1], Tok(",", 0)>> \o Join(Tail(fields))

Brackets == {<<"", "">>, <<"[", "]">>, <<"(", ")">>, <<"[", "">>}

\* The text: an opening bracket or none, the fields, a trailing comma or
\* none, a closing bracket or none
Text(fields, b, trailing) ==
    PStr((IF b[1] = "" THEN <<>> ELSE <<Tok(b[1], 0)>>)
         \o Join(fields)
         \o (IF trailing THEN <<Tok(",", 0)>> ELSE <<>>)
         \o (IF b[2] = "" THEN <<>> ELSE <<Tok(b[2], 0)>>))

StringInputs ==
    {Text(f, b, t) : f \in FieldLists, b \in Brackets, t \in BOOLEAN}
      \cup {PStr(<<o>>) : o \in NumberToks \cup OtherToks}

\* The longest list of tuples, as normalize_coordinates returns them
MaxTuples == 4

\* A list of rectangles as normalize_coordinates returns it: a list of
\* 4-tuples of ints
AsValue(boxes) == PList([k \in 1..Len(boxes) |-> EncTuple(Ints(boxes[k]))])

TupleLists ==
    UNION {{AsValue(bs) : bs \in [1..n -> DescriptorRects]} : n \in 1..MaxTuples}

\* Items no branch accepts: a tuple of three, an empty list, a number, a
\* mapping without the keys of a rectangle
MalformedItems ==
    {PTuple(<<PInt(0), PInt(0), PInt(1)>>), PList(<<>>), PInt(1),
     PDict(<< <<"x1", PInt(0)>>, <<"y1", PInt(0)>> >>)}

\* Lists of regions of which one item is malformed
MalformedLists ==
    UNION {{PList(<<Describe(d), bad>>), PList(<<bad, Describe(d)>>),
            PList(<<Describe(d), bad, Describe(d)>>)} :
              d \in Descriptors, bad \in MalformedItems}

NormalizeInputs ==
    UNION {FourEncodings(r) : r \in NormRects}
      \cup {DescribeAll(ds) : ds \in DescriptorSeqs(MaxDescriptors)}
      \cup BoolInputs
      \cup StringInputs
      \cup TupleLists
      \cup MalformedLists

InitNormalize ==
    /\ negPc = "done"
    /\ preflight_minio_health = FALSE
    /\ forbid_redirect = TRUE
    /\ secure_guess = FALSE
    /\ probeResp = NoResp
    /\ probes = <<>>
    /\ negResult = FALSE
    /\ negCalls = 1
    /\ pc = "normalize"
    /\ enable_compression = TRUE
    /\ compression_quality = 85
    /\ compression_mode = "normal"
    /\ crop_coordinates \in NormalizeInputs
    /\ minio_secure = FALSE
    /\ self_minio_secure = FALSE
    /\ minio_client = [created |-> TRUE, secure |-> FALSE]
    /\ bucketChecks = 1
    /\ bucketMakes = 0
    /\ bucketAbsent = 0
    /\ downloaded_file = "downloaded"
    /\ disk = {"downloaded"}
    /\ img = [w |-> ImgW, h |-> ImgH, mode |-> "RGB", valid |-> TRUE, status |-> 200]
    /\ coordinates_list = <<>>
    /\ i = 0
    /\ cropped = NoCrop
    /\ cropCalls = {}
    /\ attempted = {}
    /\ jpegInputs = {}
    /\ encodeQualities = {}
    /\ store = {}
    /\ results = <<>>
    /\ result = NoResult
    /\ cpc = "idle"
    /\ process_mode = "auto"
    /\ quality = 75
    /\ output_format = "none"
    /\ output_path = NoPath
    /\ files = NoFiles
    /\ dl = <<>>
    /\ ci = NoCall
    /\ cresult = NoCompressResult
    /\ encodes = {}
    /\ batch = NoBatch
    /\ ret = NoReturn
    /\ clock = 0
    /\ uploads = <<>>

NextNormalize == NormalizeCoordinates

SpecNormalize == InitNormalize /\ [][NextNormalize]_vars

(***************************************************************************)
(* upload_to_minio_storage on its own: the function is called repeatedly   *)
(* in one process, for source names out of SourceNames, while the wall     *)
(* clock advances by less than or by a whole millisecond between calls.    *)
(***************************************************************************)
MaxUploads == 3
MaxClock == 2000

\* "%f" prints microseconds; [:-3] keeps the milliseconds
MicrosPerMilli == 1000

\* re.sub(r'[^a-zA-Z0-9_-]', '_', name_without_ext), one character
sanitize_char(c) == IF c \in {"a", "-", "_"} THEN c ELSE "_"

\* re.sub(r'[^a-zA-Z0-9_-]', '_', name_without_ext)
sanitize(stem) == [k \in 1..Len(stem) |-> sanitize_char(stem[k])]

\* datetime.now().strftime("%Y%m%d%H%M%S%f")[:-3]
timestamp(now) == now \div MicrosPerMilli

\* object_name = f"{name_without_ext}_{timestamp}{ext}", ext defaulting to ".jpg"
object_name_of(name, now) ==
    [stem |-> sanitize(name.stem),
     timestamp |-> timestamp(now),
     ext |-> IF name.ext = "" THEN ".jpg" ELSE name.ext]

SourceNames ==
    {[stem |-> st, ext |-> e] : st \in {<<"a">>, <<"a", " ">>, <<"a", "-">>},
                                e \in {"", ".png"}}

\* The wall clock advances between two statements of the process
Tick ==
    /\ \E d \in {400, MicrosPerMilli} :
         /\ clock + d <= MaxClock
         /\ clock' = clock + d
    /\ UNCHANGED <<negVars, splitVars, compVars, uploads>>

\* upload_to_minio_storage(file_path, ..., object_name=None, source_filename):
\* the client is created, the bucket checked or made, the object name
\* synthesized when none is given, the file put; any exception returns None
UploadToMinioStorage ==
    /\ Len(uploads) < MaxUploads
    /\ \E name \in SourceNames, given \in BOOLEAN,
          outcome \in {"client_fails", "check_fails", "make_fails", "put_fails", "put"} :
         LET object_name == IF given THEN [stem |-> name.stem, timestamp |-> 0,
                                           ext |-> name.ext]
                            ELSE object_name_of(name, clock) IN
         /\ (given => name.ext # "" /\ name.stem = <<"a">>)
         /\ IF outcome = "put"
            THEN uploads' = Append(uploads, [object_name |-> object_name,
                                             synthesized |-> ~given])
            ELSE UNCHANGED uploads
    /\ UNCHANGED <<negVars, splitVars, compVars, clock>>

InitUpload ==
    /\ InitCompress
    /\ quality = 75
    /\ compression_mode = "normal"
    /\ output_format = "none"

NextUpload ==
    \/ Tick
    \/ UploadToMinioStorage

SpecUpload == InitUpload /\ [][NextUpload]_vars

(***************************************************************************)
(* Claims                                                                  *)
(***************************************************************************)
\* A probe with the given protocol was issued and succeeded.
ProbeSucceeded(ssl) == \E k \in 1..Len(probes) : probes[k].use_ssl = ssl /\ probes[k].ok

ProbeIssued(ssl) == \E k \in 1..Len(probes) : probes[k].use_ssl = ssl

\* C2: auto_fix_secure_by_probe never raises; a probe succeeds exactly when a
\* response with status 200, 204, 401 or 403 was received; the result is the
\* guess if the guessed-protocol probe succeeded, else the opposite if the
\* opposite-protocol probe succeeded, else the guess.
C2_ResultDeterminedByProbes ==
    /\ negPc # "raised"
    /\ (probeResp # NoResp /\ Len(probes) > 0) =>
          (probes[Len(probes)].ok <=>
              (probeResp.kind = "status" /\ probeResp.code \in {200, 204, 401, 403}))
    /\ (negPc = "done") =>
          negResult = (IF ProbeSucceeded(secure_guess) THEN secure_guess
                       ELSE IF ProbeSucceeded(~secure_guess) THEN ~secure_guess
                       ELSE secure_guess)
    /\ (negPc = "done" /\ preflight_minio_health) =>
          /\ ProbeIssued(secure_guess)
          /\ (~ProbeSucceeded(secure_guess) => ProbeIssued(~secure_guess))

\* The guessed protocol failed, the opposite one answered, and the result flipped.
C2_Witness ==
    /\ negPc = "done"
    /\ Len(probes) = 2
    /\ ~probes[1].ok /\ probes[2].ok
    /\ negResult = ~secure_guess

\* C1: in a multi-region run a region whose crop fails does not abort its
\* siblings: every other region is still attempted, and the returned result
\* carries the per-region result of every region that was published.
C1_CropFailureKeepsSiblings ==
    (pc = "done" /\ \E k \in attempted :
                        crop_image(coordinates_list[k], img.w, img.h).raised) =>
        /\ attempted = 1..Len(coordinates_list)
        /\ \A o \in store :
              \E n \in 1..Len(result.results) : result.results[n].index = o.key

\* The negotiator was given secure = TRUE and only the plaintext probe succeeded.
OnlyPlaintextAnswers ==
    /\ secure_guess = TRUE
    /\ probes = <<[use_ssl |-> TRUE, ok |-> FALSE], [use_ssl |-> FALSE, ok |-> TRUE]>>
    /\ pc \notin {"main", "init_splitter", "negotiating"}

InitializedSplitter == pc \notin {"main", "init_splitter", "negotiating"}

\* C3: given secure = TRUE with only the plaintext probe succeeding, the
\* splitter's flag is FALSE, the storage client is created with secure = FALSE,
\* every published URL has scheme http, the result reports minio_secure = FALSE,
\* and the flag is not modified after the initialization.
C3_FlippedFlagUsedDownstream ==
    /\ [](OnlyPlaintextAnswers =>
            /\ self_minio_secure = FALSE
            /\ (minio_client.created => minio_client.secure = FALSE)
            /\ \A o \in store : o.scheme = "http" /\ o.client_secure = FALSE
            /\ \A n \in 1..Len(results) : results[n].minio_url.scheme = "http"
            /\ (result.returned /\ result.success =>
                    /\ result.minio_secure = FALSE
                    /\ \A n \in 1..Len(result.results) :
                          result.results[n].minio_url.scheme = "http"))
    /\ [][InitializedSplitter => self_minio_secure' = self_minio_secure]_vars

\* A run that flipped to plaintext and published two regions.
C3_Witness ==
    /\ OnlyPlaintextAnswers
    /\ pc = "done"
    /\ result.success
    /\ Len(result.results) = 2

\* The rectangle of a run of crop_image on its own.
InputRect ==
    <<crop_coordinates.items[1].n, crop_coordinates.items[2].n,
      crop_coordinates.items[3].n, crop_coordinates.items[4].n>>

Degenerate(r) == r[1] = r[3] \/ r[2] = r[4]

\* C10: a rectangle with x1 = x2 or y1 = y2 is returned unchanged by
\* normalize_coordinates, and crop_image rejects it with the invalid-rectangle
\* error before the image is cropped.
C10_DegenerateParsesCropRejects ==
    (pc # "normalize" /\ Degenerate(InputRect)) =>
        /\ coordinates_list = <<InputRect>>
        /\ pc \in {"loop", "finally"}
        /\ cropCalls = {}
        /\ cropped = NoCrop
        /\ (pc = "finally" =>
                /\ result.returned /\ ~result.success
                /\ result.error = "invalid_rectangle")

\* A degenerate rectangle inside the image was normalized and rejected.
C10_Witness ==
    /\ pc = "finally"
    /\ InputRect = <<1, 1, 1, 2>>
    /\ img.w = 3 /\ img.h = 3
    /\ attempted = {1}
    /\ result.error = "invalid_rectangle"

\* C4: in a run with the preflight check enabled the negotiation has run
\* exactly once by the time the storage client exists, and the flag it returned
\* is the one of the storage client and of every published URL.
C4_NegotiatedBeforeClient ==
    (preflight_minio_health /\ minio_client.created) =>
        /\ negCalls = 1
        /\ negPc = "done"
        /\ minio_client.secure = negResult
        /\ \A o \in store : o.client_secure = negResult

\* The encoder calls made by compress_image for the file being processed.
Candidates == {e \in encodes : e.site = "compress" /\ e.k = batch.k}

\* compress_image has returned to its caller, which has not yet gone on.
Returned == cpc \in {"batch_record", "main_after", "minio_after_compress"}

\* C5: the quality handed to the JPEG encoder after the adjustment for the
\* compression mode never exceeds the quality the caller supplied.
C5_EffectiveQualityNotAboveSupplied ==
    \A e \in encodes :
        (e.site = "compress" /\ e.fmt = "JPEG") => e.quality <= quality

\* C6: every JPEG encode of compress_image gets max(60, q-10) in aggressive
\* mode, max(50, q-20) in ultra mode and q in normal mode, q being the quality
\* given to the run; the adjustment was made exactly once before any encode of
\* the image, for each AUTO candidate and for each file of a batch alike.
C6_QualityAdjustedOnce ==
    \A e \in encodes :
        e.site = "compress" =>
            /\ e.adjusted = 1
            /\ e.fmt = "JPEG" =>
                  e.quality = (IF compression_mode = "aggressive"
                               THEN (IF quality - 10 > 60 THEN quality - 10 ELSE 60)
                               ELSE IF compression_mode = "ultra"
                               THEN (IF quality - 20 > 50 THEN quality - 20 ELSE 50)
                               ELSE quality)

\* Both AUTO candidates of the second file of a batch were encoded with a
\* quality that the floor of the aggressive mode raised.
C6_Witness ==
    /\ output_format = "AUTO"
    /\ compression_mode = "aggressive"
    /\ quality = 50
    /\ batch.k = 2
    /\ batch.success = 1
    /\ Cardinality(Candidates) = 2
    /\ \E e \in Candidates : e.fmt = "JPEG" /\ e.quality = 60 /\ e.saved

\* C7: in AUTO mode, when both candidates were encoded, the result is a
\* success whose compressed_size is the smaller of the two sizes, whose format
\* is that of a candidate of that size, and whose output file has that size.
C7_AutoKeepsSmallest ==
    (/\ output_format = "AUTO"
     /\ Returned
     /\ Cardinality(Candidates) = 2
     /\ \A e \in Candidates : e.saved) =>
        /\ cresult.returned /\ cresult.success
        /\ \A e \in Candidates : cresult.compressed_size <= e.size
        /\ \E e \in Candidates :
              /\ e.fmt = cresult.format
              /\ e.size = cresult.compressed_size
        /\ Exists(files, cresult.output_path)
        /\ files[cresult.output_path] = cresult.compressed_size

\* An opaque truecolor image whose PNG candidate came out larger than the JPEG
\* candidate: JPEG was kept.
C7_Witness ==
    /\ output_format = "AUTO"
    /\ Returned
    /\ \E j \in Candidates, g \in Candidates :
          /\ j.fmt = "JPEG" /\ j.saved /\ j.mode = "RGB"
          /\ g.fmt = "PNG" /\ g.saved /\ g.mode = "RGB"
          /\ g.size > j.size
    /\ cresult.success
    /\ cresult.format = "JPEG"

\* C8: in AUTO mode, once the image is open, both candidates are tried
\* whatever the outcome of the first; the result is a success, in the format of
\* a candidate that was written, exactly when one candidate was written, and
\* the failure "all formats failed" exactly when none was.
C8_AutoSkipsFailedCandidate ==
    (/\ output_format = "AUTO"
     /\ Returned
     /\ Candidates # {}) =>
        /\ {e.fmt : e \in Candidates} = {"JPEG", "PNG"}
        /\ cresult.returned
        /\ cresult.success <=> \E e \in Candidates : e.saved
        /\ cresult.success =>
              \E e \in Candidates : e.saved /\ e.fmt = cresult.format
        /\ ~cresult.success => cresult.error = "all_failed"

\* The candidate tried first (PNG, the image has transparency) raised and the
\* JPEG candidate tried after it was returned.
C8_Witness ==
    /\ output_format = "AUTO"
    /\ Returned
    /\ \E j \in Candidates, g \in Candidates :
          /\ g.fmt = "PNG" /\ ~g.saved /\ g.mode = "RGBA"
          /\ j.fmt = "JPEG" /\ j.saved
    /\ cresult.success
    /\ cresult.format = "JPEG"

\* C9: whatever the colour mode of the source, the image handed to the JPEG
\* encoder is a truecolor one.
C9_JpegEncoderOnlyTruecolor ==
    \A e \in encodes : e.fmt = "JPEG" => e.mode = "RGB"

\* The rectangle of a run of crop_image on its own after x2 and y2 were
\* clamped to the image.
ClampedRect ==
    <<InputRect[1], InputRect[2], Min(InputRect[3], img.w), Min(InputRect[4], img.h)>>

\* crop_image has been called for the rectangle.
CropAttempted == attempted = {1}

\* C11: when the clamped rectangle has x1 >= x2 or y1 >= y2, crop_image fails
\* with the invalid-rectangle error and no box is handed to the codec's crop.
C11_ClampedDegenerateRejected ==
    (CropAttempted /\ (Degenerate(ClampedRect) \/ Inverted(ClampedRect))) =>
        /\ cropCalls = {}
        /\ result.returned /\ ~result.success
        /\ result.error = "invalid_rectangle"

\* x1 < x2 and y1 < y2, and x2 or y2 lies outside the image.
Overhanging ==
    /\ InputRect[1] < InputRect[3]
    /\ InputRect[2] < InputRect[4]
    /\ (InputRect[3] > img.w \/ InputRect[4] > img.h)

\* crop_image returned the rectangle with x2 and y2 clamped, x1 and y1 as given.
CroppedClamped ==
    /\ pc = "upload"
    /\ ~result.returned
    /\ cropCalls = {ClampedRect}
    /\ cropped.box = ClampedRect
    /\ cropped.box[1] = InputRect[1] /\ cropped.box[2] = InputRect[2]

\* C12 as stated: every rectangle with x1 < x2, y1 < y2 that overhangs the
\* image is cropped, clamped, without a failure.
C12_OverhangClampedNeverFails ==
    (CropAttempted /\ Overhanging) => CroppedClamped

\* C12 amended: a rectangle with x1 < x2, y1 < y2 that overhangs the image and
\* whose corner x1, y1 lies inside it (x1 < width, y1 < height) is cropped
\* without a failure, x2 replaced by the width, y2 by the height, x1 and y1
\* unchanged.
C12_OverhangInsideClamped ==
    (CropAttempted /\ Overhanging /\ InputRect[1] < img.w /\ InputRect[2] < img.h) =>
        CroppedClamped

\* (1,1,4,2) on a 3 x 3 image was cropped as (1,1,3,2).
C12_Witness ==
    /\ InputRect = <<1, 1, 4, 2>>
    /\ img.w = 3 /\ img.h = 3
    /\ pc = "upload"
    /\ cropped.box = <<1, 1, 3, 2>>

\* normalize_coordinates returned exactly these rectangles.
Normalized(boxes) ==
    /\ pc = "loop"
    /\ ~result.returned
    /\ coordinates_list = boxes

\* normalize_coordinates raised.
NormalizeFailed ==
    /\ pc = "finally"
    /\ result.returned /\ ~result.success
    /\ result.error = "malformed"
    /\ coordinates_list = <<>>

\* C13: the tuple, the list, the x1/y1/x2/y2 mapping and the
\* left/top/right/bottom mapping of the integers x1, y1, x2, y2 are all
\* normalized to the one-element result [(x1, y1, x2, y2)].
C13_FourEncodingsAgree ==
    \A r \in NormRects :
        (pc # "normalize" /\ crop_coordinates \in FourEncodings(r)) => Normalized(<<r>>)

\* The left/top/right/bottom mapping of a rectangle whose corners differ in
\* every coordinate was normalized.
C13_Witness ==
    /\ crop_coordinates = EncDictEdges(Ints(<<0, 1, 2, -1>>))
    /\ Normalized(<< <<0, 1, 2, -1>> >>)

\* The number a numeric field stands for, fractions dropped
FieldNumber(tok) == IF tok.t = "floatlit" THEN Trunc(tok.n) ELSE tok.n

AllNumeric(f) == \A k \in 1..Len(f) : f[k] \in NumberToks

\* A field list that no strategy can take once it is written without
\* brackets: a word in it, or a number with a leading zero among fewer or
\* more than four fields
Unparseable(f) ==
    \/ \E k \in 1..Len(f) : f[k].t \in {"word", "true"}
    \/ Len(f) # 4 /\ \E k \in 1..Len(f) : f[k].t = "zerolit"

\* C14: a string of four comma-separated numeric fields yields exactly one
\* rectangle with the four numbers, whichever of the three strategies parses
\* it (the JSON parse for a JSON array, the literal parse for plain numbers,
\* the comma split for numbers with a leading zero); a string that none of
\* the strategies parses makes normalize_coordinates raise.
C14_StringStrategies ==
    \A f \in FieldLists :
        /\ (/\ pc # "normalize"
            /\ Len(f) = 4 /\ AllNumeric(f)
            /\ crop_coordinates \in {Text(f, <<"", "">>, FALSE), Text(f, <<"", "">>, TRUE)}) =>
               Normalized(<< [k \in 1..4 |-> FieldNumber(f[k])] >>)
        /\ (/\ pc # "normalize"
            /\ Len(f) = 4 /\ \A k \in 1..4 : f[k].t \in {"intlit", "floatlit"}
            /\ crop_coordinates \in {Text(f, <<"[", "]">>, FALSE),
                                      Text(f, <<"(", ")">>, FALSE)}) =>
               Normalized(<< [k \in 1..4 |-> FieldNumber(f[k])] >>)
        /\ (/\ pc # "normalize"
            /\ Unparseable(f)
            /\ crop_coordinates \in {Text(f, <<"", "">>, FALSE), Text(f, <<"", "">>, TRUE)}) =>
               NormalizeFailed

\* "02,1,3,3": the JSON parse and the literal parse refused the leading zero
\* and the comma split produced the rectangle.
C14_Witness ==
    /\ crop_coordinates =
          Text(<<Tok("zerolit", 2), Tok("intlit", 1), Tok("intlit", 3), Tok("intlit", 3)>>,
               <<"", "">>, FALSE)
    /\ ~json_loads(crop_coordinates).ok
    /\ ~literal_eval(crop_coordinates).ok
    /\ Normalized(<< <<2, 1, 3, 3>> >>)

\* C15: a list of k >= 1 region descriptors, whatever their shapes, is
\* normalized to the rectangles of the descriptors in the order of the list.
C15_DescriptorsConcatenated ==
    \A ds \in DescriptorSeqs(MaxDescriptors) :
        (pc # "normalize" /\ crop_coordinates = DescribeAll(ds)) =>
            Normalized([k \in 1..Len(ds) |-> ds[k].rect])

\* v holds a bool among its values
RECURSIVE ContainsBool(_)
ContainsBool(v) ==
    IF v.t = "bool" THEN TRUE
    ELSE IF v.t = "str" THEN \E k \in 1..Len(v.items) : v.items[k].t \in {"true", "True"}
    ELSE IF v.t = "dict" THEN \E k \in 1..Len(v.items) : ContainsBool(v.items[k][2])
    ELSE IF v.t \in {"list", "tuple"} THEN \E k \in 1..Len(v.items) : ContainsBool(v.items[k])
    ELSE FALSE

\* C16: an input with a bool as a coordinate value, in a flat sequence, a
\* two-point form, a mapping (w and h included) or a string, makes
\* normalize_coordinates raise: no rectangle is returned.
C16_BoolRejected ==
    (pc # "normalize" /\ ContainsBool(crop_coordinates)) => NormalizeFailed

\* The x/y/w/h mapping with h = True was refused.
C16_Witness ==
    /\ crop_coordinates = EncDictSize(<<PInt(0), PInt(0), PInt(1), PBool(TRUE)>>)
    /\ NormalizeFailed

\* C17: with forbid_redirect set, the body of a 3xx response is never written
\* to the local file the crop pipeline goes on to process, whatever the 3xx
\* status and with or without a Location header.
C17_RedirectBodyNeverUsed ==
    (forbid_redirect /\ downloaded_file # "none") => img.status \notin 300..399

\* C18: no two uploads of one process that synthesized their object name got
\* the same object key, even for the same source name and within the same
\* millisecond.
C18_ObjectKeysDistinct ==
    \A a, b \in 1..Len(uploads) :
        (a # b /\ uploads[a].synthesized /\ uploads[b].synthesized)
            => uploads[a].object_name # uploads[b].object_name

\* C19: when the compress tool's run is over, on success or on failure, the
\* temporary JPEG it created for the downloaded or merged image no longer
\* exists.
C19_TempFileGoneAtReturn ==
    cpc = "done" => ~Exists(files, TempPath)

\* C20: a run of the compress tool whose processing function returned a
\* failure result ends by returning to the caller; it does not terminate the
\* process.
C20_FailedRunReturnsResult ==
    (cpc = "done" /\ cresult.returned /\ ~cresult.success) => ret.kind # "exit"

\* C21: a successful result of process_image reports one entry per normalized
\* rectangle, in input order: total_crops and the length of results equal the
\* number of rectangles, and the k-th entry has index k and the k-th
\* rectangle as its coordinates.
C21_ResultsInInputOrder ==
    (result.returned /\ result.success) =>
        /\ Len(result.results) = Len(coordinates_list)
        /\ result.total_crops = Len(coordinates_list)
        /\ \A k \in 1..Len(result.results) :
              /\ result.results[k].index = k
              /\ result.results[k].coordinates = coordinates_list[k]

C21_Witness ==
    /\ result.returned
    /\ result.success
    /\ Len(coordinates_list) >= 2
    /\ coordinates_list[1] # coordinates_list[2]

\* C22: when the compress tool was asked to upload and the upload failed, the
\* run does not end by handing the caller an output location or a result as
\* after a successful run.
C22_UploadFailureSurfaces ==
    (cpc = "done" /\ ret.upload /\ ret.final_url = "none")
        => ret.kind \notin {"url", "local_path", "result"}

\* C23 as stated: every run of the crop tool, however it ends, has checked the
\* existence of the bucket exactly once.
C23_EveryRunChecksOnce ==
    pc \in {"done", "raised"} => bucketChecks = 1

\* C23, amended: the bucket is checked at most once in a run and never again
\* per region, it is created exactly when the check reported it absent, and
\* an object is put, and process_image returns, only after the one check.
C23_CheckedOnceBeforePut ==
    /\ bucketChecks <= 1
    /\ bucketMakes = bucketAbsent
    /\ (store # {} \/ pc = "done") => bucketChecks = 1

C23_Witness ==
    /\ Cardinality(store) >= 2
    /\ bucketAbsent = 1
    /\ bucketMakes = 1
    /\ pc = "done"

\* C24: every region crop_image extracted lies inside the image:
\* 0 <= x1 < x2 <= width and 0 <= y1 < y2 <= height.
C24_ExtractedRegionInsideImage ==
    cropped # NoCrop =>
        /\ 0 <= cropped.box[1]
        /\ cropped.box[1] < cropped.box[3]
        /\ cropped.box[3] <= img.w
        /\ 0 <= cropped.box[2]
        /\ cropped.box[2] < cropped.box[4]
        /\ cropped.box[4] <= img.h

\* C25: one negotiation issues at most two health probes; the first is of the
\* guessed protocol; the opposite protocol is probed once, and exactly when
\* the probe of the guess failed; with the preflight check disabled no probe
\* is issued and the guess is returned unchanged.
C25_AtMostOneFlipProbe ==
    /\ Len(probes) <= 2
    /\ (Len(probes) >= 1 => probes[1].use_ssl = secure_guess)
    /\ (Len(probes) = 2 => ~probes[1].ok /\ probes[2].use_ssl = ~secure_guess)
    /\ (negPc = "done" /\ preflight_minio_health =>
            Len(probes) = IF probes[1].ok THEN 1 ELSE 2)
    /\ (~preflight_minio_health => probes = <<>>)
    /\ (negPc = "done" /\ ~preflight_minio_health => negResult = secure_guess)

C25_Witness ==
    /\ negPc = "done"
    /\ Len(probes) = 2
    /\ probes[2].ok
    /\ negResult = ~secure_guess

Published == {o.key : o \in store}

Ended == pc \in {"done", "raised"}

\* The order of the stages of the crop pipeline, as a state predicate
StagesInOrder ==
    /\ (attempted # {} => downloaded_file # "none")
    /\ (pc = "upload" => cropped # NoCrop /\ i \in attempted)
    /\ Published \subseteq attempted
    /\ (store # {} => jpegInputs # {})
    /\ \A k \in attempted : \A j \in 1..(k - 1) : j \in Published
    /\ \A k \in Published : k <= Len(results) /\ results[k].index = k
    /\ (result.returned /\ ~result.success /\ i \in attempted => i \notin Published)

\* The source is fetched once, before any crop, and a region is published
\* only from the publishing stage, which follows its crop
FetchOnceThenCrop ==
    /\ (downloaded_file' # downloaded_file =>
            downloaded_file = "none" /\ attempted = {} /\ store = {})
    /\ (store' # store => pc = "upload" /\ cropped # NoCrop /\ ~result.returned)
    /\ (attempted' # attempted => pc = "loop" /\ cropped = NoCrop)

\* C26: within a run of the crop pipeline the stages execute in sequence: the
\* source is fetched once before any crop, a region is cropped, then
\* compressed, then published, region i is published before region i+1 is
\* cropped, nothing is published for a region whose crop or compression
\* failed, and every run ends, in Done or in Failed.
C26_StagesInSequence ==
    /\ []StagesInOrder
    /\ [][FetchOnceThenCrop]_vars
    /\ <>Ended

C26_Witness ==
    /\ pc = "done"
    /\ Cardinality(Published) = 1
    /\ Cardinality(attempted) = 2
    /\ result.returned
    /\ ~result.success

\* The format AUTO tries first for a source of colour mode m
FirstFormat(m) == IF m \in {"RGBA", "LA", "P"} THEN "PNG" ELSE "JPEG"

\* Both AUTO candidates were encoded and compress_image has returned
BothEncoded ==
    /\ output_format = "AUTO"
    /\ Returned
    /\ Cardinality(Candidates) = 2
    /\ \A e \in Candidates : e.saved

\* C27: in AUTO mode PNG is tried before JPEG for a source of mode RGBA, LA or
\* P and JPEG before PNG otherwise; the candidate tried second is kept only
\* when it is strictly smaller, so with equal sizes the first one is kept.
C27_AutoOrderAndTies ==
    /\ (cpc = "auto_try" /\ ci.next = 2) =>
           \A e \in Candidates : e.fmt = FirstFormat(ci.mode)
    /\ BothEncoded =>
           \A first, second \in Candidates :
               (first.fmt = "PNG" \/ second.fmt = "PNG") /\ first # second
                 /\ first.fmt = FirstFormat(IF first.fmt = "PNG" THEN first.mode
                                            ELSE second.mode)
               => cresult.format = IF second.size < first.size THEN second.fmt
                                   ELSE first.fmt

C27_Witness ==
    /\ BothEncoded
    /\ \E first, second \in Candidates :
          /\ first.fmt = "PNG"
          /\ first.mode = "RGBA"
          /\ second.fmt = "JPEG"
          /\ first.size = second.size
          /\ cresult.format = "PNG"

\* A list that normalize_coordinates takes for a list of regions: not empty,
\* neither four plain values nor a pair of two-element sequences
MultiRegion(c) ==
    /\ c.t = "list"
    /\ Len(c.items) > 0
    /\ ~(Len(c.items) = 4 /\ \A k \in 1..4 : ~IsContainer(c.items[k]))
    /\ ~(Len(c.items) = 2 /\ \A k \in 1..2 : c.items[k].t \in {"list", "tuple"}
                                                /\ Len(c.items[k].items) = 2)

\* C28: whatever normalize_coordinates returns is a non-empty list of
\* 4-tuples of integers that normalize_coordinates maps to itself; a list of
\* regions with a malformed item makes it raise, and nothing is returned.
C28_IdempotentAllOrNothing ==
    /\ (pc = "loop" /\ ~result.returned) =>
          /\ Len(coordinates_list) >= 1
          /\ \A k \in 1..Len(coordinates_list) :
                /\ Len(coordinates_list[k]) = 4
                /\ \A j \in 1..4 : coordinates_list[k][j] \in Int
          /\ normalize_coordinates(AsValue(coordinates_list))
                = [ok |-> TRUE, boxes |-> coordinates_list]
    /\ (/\ pc # "normalize"
        /\ MultiRegion(crop_coordinates)
        /\ \E k \in 1..Len(crop_coordinates.items) :
              ~normalize_coordinates(crop_coordinates.items[k]).ok) => NormalizeFailed

C28_Witness ==
    /\ pc = "loop"
    /\ ~result.returned
    /\ crop_coordinates \in TupleLists
    /\ Len(coordinates_list) = 4
    /\ coordinates_list[1] # coordinates_list[4]

\* The trial files of AUTO that exist
TrialFiles == {p \in DOMAIN files : p.temp}

\* The files that exist under the output name of the call that returned,
\* when that name is not the name of the input
OutputFiles ==
    {p \in DOMAIN files : /\ ~p.temp
                           /\ p.base[1] \in {"out", "compressed", "merged_compressed"}
                           /\ p.base[2] = batch.k}

\* C29: when compress_image has returned from AUTO format mode no trial file
\* exists; after a success the final output file exists and no other file
\* under the output name, after a failure none.
C29_NoTrialFileLeft ==
    (output_format = "AUTO" /\ Returned) =>
        /\ TrialFiles = {}
        /\ cresult.success =>
              /\ Exists(files, cresult.output_path)
              /\ OutputFiles \subseteq {cresult.output_path}
        /\ ~cresult.success => OutputFiles = {}

\* Both candidates raised, one after it had written a part of its trial file
C29_Witness ==
    /\ output_format = "AUTO"
    /\ Returned
    /\ ~cresult.success
    /\ Cardinality(Candidates) = 2
    /\ \A e \in Candidates : ~e.saved

\* C30: when process_image has returned, every object it put into the bucket
\* is reported in the result it returned; a failed result leaves no object
\* published.
C30_EveryUploadReported ==
    result.returned =>
        \A o \in store :
            \E k \in 1..Len(result.results) : result.results[k].minio_url.key = o.key
====
